---- MODULE Spec2Model ----
(***************************************************************************)
(* Real-time anaerobic-threshold (AT) detection of xinhui:                 *)
(*   backend/inference/at_predictor.py  (ATOnlineSession, ATPredictor)     *)
(*   backend/realtime/websocket.py      (RealtimeManager)                  *)
(*   backend/realtime/simulator.py      (CPETSimulator)                    *)
(* and the consensus of the readers' annotations:                          *)
(*   backend/consensus.py, backend/main.py, backend/db.py                  *)
(*                                                                         *)
(* Conventions of the model                                                *)
(*   - Python's Optional[x] is a sequence: None is <<>>, a value v is <<v>>*)
(*   - probabilities and thresholds are in tenths (0.7 is 7), the          *)
(*     respiratory exchange ratio in hundredths (1.1 is 110), times in     *)
(*     seconds, all integers;                                              *)
(*   - an estimated crossing time is an exact fraction [num, den], den > 0 *)
(*   - of a CPETDataPoint only the fields read by the code modelled here   *)
(*     are kept (timestamp, work_rate, rer, ve, vo2); the others only feed *)
(*     the feature vector of the external PaceFormer network.              *)
(***************************************************************************)
EXTENDS Integers, Sequences, FiniteSets, TLC

VARIABLES
    at_predictor,   \* RealtimeManager.at_predictor: the ATPredictor's fields
    sessions,       \* RealtimeManager.sessions: session id -> Optional SessionState,
                    \* None for an id that is not a key of the dict
    response,       \* what the last manager call returned (or that it raised)
    results,        \* session id -> the Detection Results of the current
                    \* session object of that id, in the order produced
    active_connections, \* RealtimeManager.active_connections: session id ->
                    \* Optional WebSocket
    pending_configs,\* RealtimeManager.pending_configs: session id -> Optional
                    \* SessionConfig
    sim_tasks,      \* RealtimeManager.sim_tasks: session id -> Optional task,
                    \* a task being an index of tasks
    tasks,          \* the asyncio tasks created by _start_simulation, in the
                    \* order created: where each _run_simulation coroutine stands
    pushed,         \* session id -> the messages sent to the WebSocket that is
                    \* (or was last) registered under the id, in the order sent
    annotations,    \* the committed rows of the table annotations, in rowid order
    consensus,      \* the committed table consensus: exam id -> Optional row
    clock,          \* datetime.utcnow(), in whole seconds
    txns,           \* the requests POST /api/exams/{exam_id}/annotations being
                    \* served, each with its open database transaction
    reply,          \* what the last finished consensus request answered
    plan,           \* the last call of CPETSimulator.iter_samples made for its
                    \* own sake: its arguments and the items it yielded
    detector,       \* an ATOnlineSession used on its own: its fields, the
                    \* points ingested since it was built or reset, and what
                    \* its last call returned
    endpoints       \* session id -> the websocket_endpoint coroutines of the
                    \* id: the one suspended inside connect, and how many are
                    \* in their receive loop

\* the real-time manager
manager_vars == <<at_predictor, sessions, response, results,
                  active_connections, pending_configs, sim_tasks, tasks, pushed>>

\* the annotation store
store_vars == <<annotations, consensus, clock, txns, reply>>

vars == <<manager_vars, store_vars, plan, detector, endpoints>>

----------------------------------------------------------------------------
(* Bounds of the exploration *)

\* calls of process_data explored per session object
MaxCalls == 4

\* session ids
SessionIds == {"s1"}

\* calls explored per session object when the network is consulted
MaxCallsModel == 3

\* settings.pace_former_min_points of the manager whose network is loaded
\* (CPET_PACE_MIN_POINTS): the network is consulted from this buffer length on
MinPointsConfigured == 2

\* calls explored per session object in the long, evenly spaced runs
MaxCallsLong == 11

\* connect() parameters explored (threshold in tenths)
Thresholds == {7}
Persistences == {1, 2, 3}

----------------------------------------------------------------------------
(* Optional values and fractions *)

None == <<>>
Some(v) == <<v>>
IsNone(o) == o = <<>>
Val(o) == o[1]

Rat(n, d) == [num |-> n, den |-> d]
RatOfInt(n) == Rat(n, 1)
RatEq(a, b) == a.num * b.den = b.num * a.den
RatGE(a, b) == a.num * b.den >= b.num * a.den

Last(seq) == seq[Len(seq)]

\* Python seq[-n:] for n >= 1
LastN(seq, n) == IF Len(seq) <= n THEN seq ELSE SubSeq(seq, Len(seq) - n + 1, Len(seq))

Min2(a, b) == IF a <= b THEN a ELSE b
Max2(a, b) == IF a >= b THEN a ELSE b

\* dict.get(key, default)
Get(d, key, default) == IF key \in DOMAIN d THEN d[key] ELSE default

----------------------------------------------------------------------------
(* ATOnlineSession *)

\* ATOnlineSession.__init__
NewATOnlineSession(threshold, persistence, window_size) ==
    [ threshold |-> threshold,
      persistence |-> persistence,
      window_size |-> window_size,
      data_buffer |-> <<>>,
      prob_history |-> <<>>,
      timestamps |-> <<>>,
      at_triggered |-> FALSE,
      trigger_time |-> None,
      consecutive_above_threshold |-> 0,
      has_exercise_started |-> FALSE,
      vt1_trigger_time |-> None,
      vt1_transition_seconds |-> 30 ]

\* add_data_point that keeps the oldest points of a full buffer
add_data_point_KeepsOldest(s, point) ==
    LET buf == Append(s.data_buffer, point)
        ts == Append(s.timestamps, point.timestamp)
    IN  IF Len(buf) > s.window_size * 2
        THEN [s EXCEPT !.data_buffer = SubSeq(buf, 1, s.window_size * 2),
                       !.timestamps = SubSeq(ts, 1, s.window_size * 2)]
        ELSE [s EXCEPT !.data_buffer = buf, !.timestamps = ts]

\* ATOnlineSession.add_data_point
add_data_point(s, point) ==
    LET buf == Append(s.data_buffer, point)
        ts == Append(s.timestamps, point.timestamp)
    IN  IF Len(buf) > s.window_size * 2
        THEN [s EXCEPT !.data_buffer = LastN(buf, s.window_size * 2),
                       !.timestamps = LastN(ts, s.window_size * 2)]
        ELSE [s EXCEPT !.data_buffer = buf, !.timestamps = ts]

\* self.timestamps[-1] if self.timestamps else 0: an Optional, the timestamp
\* of a point being what the sender gave, null included
CurrentTime(s) == IF Len(s.timestamps) > 0 THEN Last(s.timestamps) ELSE Some(0)

\* x or 0, for an Optional number x
OrZero(o) == IF IsNone(o) THEN 0 ELSE Val(o)

\* _estimate_at_time without the test of the probability change
_estimate_at_time_NoSlopeCheck(s) ==
    IF s.at_triggered THEN
        (IF IsNone(s.trigger_time) THEN None ELSE Some(RatOfInt(Val(s.trigger_time))))
    ELSE IF Len(s.prob_history) < 10 THEN None
    ELSE IF Len(s.timestamps) < 10 THEN None
    ELSE
        LET recent_probs == LastN(s.prob_history, 10)
            recent_times == LastN(s.timestamps, 10)
            prob_diff == recent_probs[10] - recent_probs[1]
            time_diff == Val(recent_times[10]) - Val(recent_times[1])
            remaining == s.threshold - recent_probs[10]
        IN  IF time_diff <= 0 THEN None
            ELSE IF remaining <= 0 THEN Some(RatOfInt(Val(recent_times[10])))
            ELSE Some(Rat(Val(recent_times[10]) * prob_diff + remaining * time_diff,
                          prob_diff))

\* ATOnlineSession._estimate_at_time
_estimate_at_time(s) ==
    IF s.at_triggered THEN
        (IF IsNone(s.trigger_time) THEN None ELSE Some(RatOfInt(Val(s.trigger_time))))
    ELSE IF Len(s.prob_history) < 10 THEN None
    ELSE IF Len(s.timestamps) < 10 THEN None
    ELSE
        LET recent_probs == LastN(s.prob_history, 10)
            recent_times == LastN(s.timestamps, 10)
            prob_diff == recent_probs[10] - recent_probs[1]
            time_diff == Val(recent_times[10]) - Val(recent_times[1])
            remaining == s.threshold - recent_probs[10]
        IN  IF time_diff <= 0 \/ prob_diff <= 0 THEN None
            ELSE IF remaining <= 0 THEN Some(RatOfInt(Val(recent_times[10])))
            \* recent_times[-1] + remaining / (prob_diff / time_diff)
            ELSE Some(Rat(Val(recent_times[10]) * prob_diff + remaining * time_diff,
                          prob_diff))

\* _estimate_at_time raises TypeError: recent_times[-1] - recent_times[0] with
\* a null timestamp at either end
_estimate_at_time_raises(s) ==
    /\ ~s.at_triggered
    /\ Len(s.prob_history) >= 10
    /\ Len(s.timestamps) >= 10
    /\ \/ IsNone(Last(s.timestamps))
       \/ IsNone(s.timestamps[Len(s.timestamps) - 9])

\* _determine_intensity_zone raises TypeError: once triggered and under load,
\* current_time - (self.vt1_trigger_time or 0) is computed, with a null
\* current_time
_determine_intensity_zone_raises(s, power_load, current_time) ==
    /\ ~IsNone(power_load)
    /\ Val(power_load) > 0
    /\ s.at_triggered
    /\ IsNone(current_time)

\* _determine_intensity_zone with the window compared by < instead of <=
_determine_intensity_zone_Strict(s, power_load, current_time) ==
    IF IsNone(power_load) THEN [session |-> s, zone |-> "warmup"]
    ELSE IF Val(power_load) <= 0 THEN
        [session |-> s, zone |-> IF s.has_exercise_started THEN "recovery" ELSE "warmup"]
    ELSE
        LET s1 == [s EXCEPT !.has_exercise_started = TRUE]
        IN  IF ~s1.at_triggered THEN [session |-> s1, zone |-> "aerobic"]
            ELSE
                LET s2 == IF IsNone(s1.vt1_trigger_time)
                          THEN [s1 EXCEPT !.vt1_trigger_time = Some(current_time)]
                          ELSE s1
                IN  IF current_time - OrZero(s2.vt1_trigger_time) < s2.vt1_transition_seconds
                    THEN [session |-> s2, zone |-> "threshold"]
                    ELSE [session |-> s2, zone |-> "anaerobic"]

\* _determine_intensity_zone that never reports recovery
_determine_intensity_zone_NoRecovery(s, power_load, current_time) ==
    IF IsNone(power_load) THEN [session |-> s, zone |-> "warmup"]
    ELSE IF Val(power_load) <= 0 THEN [session |-> s, zone |-> "warmup"]
    ELSE
        LET s1 == [s EXCEPT !.has_exercise_started = TRUE]
        IN  IF ~s1.at_triggered THEN [session |-> s1, zone |-> "aerobic"]
            ELSE
                LET s2 == IF IsNone(s1.vt1_trigger_time)
                          THEN [s1 EXCEPT !.vt1_trigger_time = Some(current_time)]
                          ELSE s1
                IN  IF current_time - OrZero(s2.vt1_trigger_time) <= s2.vt1_transition_seconds
                    THEN [session |-> s2, zone |-> "threshold"]
                    ELSE [session |-> s2, zone |-> "anaerobic"]

\* _determine_intensity_zone that sets has_exercise_started only once triggered
_determine_intensity_zone_LateStart(s, power_load, current_time) ==
    IF IsNone(power_load) THEN [session |-> s, zone |-> "warmup"]
    ELSE IF Val(power_load) <= 0 THEN
        [session |-> s, zone |-> IF s.has_exercise_started THEN "recovery" ELSE "warmup"]
    ELSE
        IF ~s.at_triggered THEN [session |-> s, zone |-> "aerobic"]
        ELSE
            LET s1 == [s EXCEPT !.has_exercise_started = TRUE]
                s2 == IF IsNone(s1.vt1_trigger_time)
                      THEN [s1 EXCEPT !.vt1_trigger_time = Some(current_time)]
                      ELSE s1
            IN  IF current_time - OrZero(s2.vt1_trigger_time) <= s2.vt1_transition_seconds
                THEN [session |-> s2, zone |-> "threshold"]
                ELSE [session |-> s2, zone |-> "anaerobic"]

\* ATOnlineSession._determine_intensity_zone: the session after it and the zone
_determine_intensity_zone(s, power_load, current_time) ==
    IF IsNone(power_load) THEN [session |-> s, zone |-> "warmup"]
    ELSE IF Val(power_load) <= 0 THEN
        [session |-> s, zone |-> IF s.has_exercise_started THEN "recovery" ELSE "warmup"]
    ELSE
        LET s1 == [s EXCEPT !.has_exercise_started = TRUE]
        IN  IF ~s1.at_triggered THEN [session |-> s1, zone |-> "aerobic"]
            ELSE
                LET s2 == IF IsNone(s1.vt1_trigger_time)
                          THEN [s1 EXCEPT !.vt1_trigger_time = Some(current_time)]
                          ELSE s1
                IN  IF current_time - OrZero(s2.vt1_trigger_time) <= s2.vt1_transition_seconds
                    THEN [session |-> s2, zone |-> "threshold"]
                    ELSE [session |-> s2, zone |-> "anaerobic"]

AlertTriggered == "AT reached"
AlertNear == "near AT"
AlertAerobic == "aerobic zone"

\* TriggerCheck with the flag following the probability down again
TriggerCheck_Untrigger(s, prob) ==
    IF prob >= s.threshold THEN
        LET c == [s EXCEPT !.consecutive_above_threshold = @ + 1]
        IN  IF c.consecutive_above_threshold >= c.persistence /\ ~s.at_triggered
            THEN [c EXCEPT !.at_triggered = TRUE,
                           !.trigger_time = CurrentTime(c)]
            ELSE c
    ELSE [s EXCEPT !.consecutive_above_threshold = 0, !.at_triggered = FALSE]

\* TriggerCheck with the counter compared by > instead of >=
TriggerCheck_OffByOne(s, prob) ==
    IF s.at_triggered THEN s
    ELSE IF prob >= s.threshold THEN
        LET c == [s EXCEPT !.consecutive_above_threshold = @ + 1]
        IN  IF c.consecutive_above_threshold > c.persistence
            THEN [c EXCEPT !.at_triggered = TRUE,
                           !.trigger_time = CurrentTime(c)]
            ELSE c
    ELSE [s EXCEPT !.consecutive_above_threshold = 0]

\* TriggerCheck without the reset of the counter
TriggerCheck_NoReset(s, prob) ==
    IF s.at_triggered THEN s
    ELSE IF prob >= s.threshold THEN
        LET c == [s EXCEPT !.consecutive_above_threshold = @ + 1]
        IN  IF c.consecutive_above_threshold >= c.persistence
            THEN [c EXCEPT !.at_triggered = TRUE,
                           !.trigger_time = CurrentTime(c)]
            ELSE c
    ELSE s

\* ATOnlineSession.update_probability, "if not self.at_triggered: ..." (the
\* trigger check): the session after it
TriggerCheck(s, prob) ==
    IF s.at_triggered THEN s
    ELSE IF prob >= s.threshold THEN
        LET c == [s EXCEPT !.consecutive_above_threshold = @ + 1]
        IN  IF c.consecutive_above_threshold >= c.persistence
            THEN [c EXCEPT !.at_triggered = TRUE,
                           !.trigger_time = CurrentTime(c)]
            ELSE c
    ELSE [s EXCEPT !.consecutive_above_threshold = 0]

\* Advisory that does not look at the trigger flag
Advisory_Always(s, prob, alerts) ==
    IF prob >= 5 THEN Append(alerts, AlertNear)
    ELSE IF prob >= 3 THEN Append(alerts, AlertAerobic)
    ELSE alerts

\* ATOnlineSession.update_probability, the advisory alerts added to alerts
Advisory(s, prob, alerts) ==
    IF ~s.at_triggered
    THEN (IF prob >= 5 THEN Append(alerts, AlertNear)
          ELSE IF prob >= 3 THEN Append(alerts, AlertAerobic)
          ELSE alerts)
    ELSE alerts

\* A confidence c <= 1 is kept exactly, as the integer 2500 * (1 - c)^2:
\* 0 is c = 1.0, 625 is c = 0.5, 2500 is c = 0.0.
\*
\* With the probabilities p in tenths, the population variance of five of them
\* is (5 * sum(p^2) - sum(p)^2) / 2500, so 1 - 2 * np.std(recent) is
\* 1 - sqrt(4 * (5 * sum(p^2) - sum(p)^2)) / 50.
ConfidenceOfStd(recent) ==
    LET sum == recent[1] + recent[2] + recent[3] + recent[4] + recent[5]
        squares == recent[1] * recent[1] + recent[2] * recent[2]
                   + recent[3] * recent[3] + recent[4] * recent[4]
                   + recent[5] * recent[5]
    IN  4 * (5 * squares - sum * sum)

\* _calculate_confidence without the floor max(0.5, .)
_calculate_confidence_NoFloor(s) ==
    IF Len(s.prob_history) < 5 THEN 625
    ELSE ConfidenceOfStd(LastN(s.prob_history, 5))

\* ATOnlineSession._calculate_confidence: max(0.5, c) is the smaller of the two
\* integers; min(1.0, .) changes nothing, a standard deviation being >= 0
_calculate_confidence(s) ==
    IF Len(s.prob_history) < 5 THEN 625
    ELSE Min2(625, ConfidenceOfStd(LastN(s.prob_history, 5)))

\* ATOnlineSession.update_probability: the session after it and the
\* ATOnlineResult, or the session as the TypeError of an arithmetic on a null
\* timestamp leaves it (raised).  _determine_intensity_zone is handed a number:
\* where current_time is null and the call does not raise, it is not read.
update_probability(s, prob, predicted_at_time, power_load) ==
    LET s1 == [s EXCEPT !.prob_history = Append(s.prob_history, prob)]
        s2 == TriggerCheck(s1, prob)
        \* the alert is appended where at_triggered is set
        alerts1 == IF ~s1.at_triggered /\ s2.at_triggered THEN <<AlertTriggered>> ELSE <<>>
        estimate_raises == IsNone(predicted_at_time) /\ _estimate_at_time_raises(s2)
        predicted_at == IF ~IsNone(predicted_at_time)
                        THEN Some(RatOfInt(Val(predicted_at_time)))
                        ELSE IF estimate_raises THEN None
                        ELSE _estimate_at_time(s2)
        current_time == CurrentTime(s2)
        zone_raises == _determine_intensity_zone_raises(s2, power_load, current_time)
        z == IF zone_raises
             THEN [ session |-> [s2 EXCEPT !.has_exercise_started = TRUE], zone |-> "" ]
             ELSE _determine_intensity_zone(s2, power_load, OrZero(current_time))
        s3 == IF estimate_raises THEN s2 ELSE z.session
    IN  [ session |-> s3,
          raised |-> estimate_raises \/ zone_raises,
          result |-> [ timestamp |-> CurrentTime(s3),
                       at_probability |-> prob,
                       at_triggered |-> s3.at_triggered,
                       predicted_at_time |-> predicted_at,
                       confidence |-> _calculate_confidence(s3),
                       intensity_zone |-> z.zone,
                       alerts |-> Advisory(s3, prob, alerts1) ] ]

\* ATOnlineSession.reset that leaves has_exercise_started as it is
reset_KeepsExerciseFlag(s) ==
    [ s EXCEPT !.data_buffer = <<>>,
               !.prob_history = <<>>,
               !.timestamps = <<>>,
               !.at_triggered = FALSE,
               !.trigger_time = None,
               !.consecutive_above_threshold = 0,
               !.vt1_trigger_time = None ]

\* ATOnlineSession.reset
reset(s) ==
    [ s EXCEPT !.data_buffer = <<>>,
               !.prob_history = <<>>,
               !.timestamps = <<>>,
               !.at_triggered = FALSE,
               !.trigger_time = None,
               !.consecutive_above_threshold = 0,
               !.has_exercise_started = FALSE,
               !.vt1_trigger_time = None ]

\* an ATOnlineSession used on its own, as built by ATOnlineSession(threshold,
\* persistence, window_size): its fields, the points ingested since it was
\* built or reset, what the last call returned (None but for
\* update_probability), the fields that the last call found if it was reset,
\* and the number of calls made on it
NewDetector(threshold, persistence, window_size) ==
    [ session |-> NewATOnlineSession(threshold, persistence, window_size),
      ingested |-> <<>>,
      result |-> None,
      reset_from |-> None,
      calls |-> 0 ]

\* ATOnlineSession() with the defaults of __init__
NoDetector == NewDetector(7, 3, 60)

\* no websocket_endpoint coroutine is running
NoEndpoints(ids) == [sid \in ids |-> [connecting |-> None, listening |-> 0]]

----------------------------------------------------------------------------
(* ATPredictor *)

\* ATPredictor.__init__ / the module-level construction in websocket.py:
\* model is None after the fallback ATPredictor(), min_points_for_model comes
\* from settings.pace_former_min_points.
NewATPredictor(model_loaded, min_points) ==
    [ model_loaded |-> model_loaded, min_points_for_model |-> min_points ]

\* the RER band of one point in ATPredictor._rule_based_prediction
RerBand(rer) ==
    IF rer >= 110 THEN 9
    ELSE IF rer >= 100 THEN 7
    ELSE IF rer >= 95 THEN 5
    ELSE IF rer >= 85 THEN 3
    ELSE 1

\* slope = (ve[-1] - ve[0]) / (vo2[-1] - vo2[0] + 1e-6) > 30, for integer ve, vo2
SlopeAbove30(dve, dvo2) ==
    IF dvo2 >= 0 THEN dve > 30 * dvo2 ELSE dve <= 30 * dvo2

\* ATPredictor._rule_based_prediction raises TypeError: a None rer is compared,
\* or a None ve/vo2 enters the slope
_rule_based_raises(data_points) ==
    \E i \in 1..Len(data_points) :
        \/ IsNone(data_points[i].rer)
        \/ /\ i >= 11
           /\ Cardinality({data_points[j].vo2 : j \in (i - 10)..i}) > 1
           /\ \/ IsNone(data_points[i].ve) \/ IsNone(data_points[i - 10].ve)
              \/ IsNone(data_points[i].vo2) \/ IsNone(data_points[i - 10].vo2)

\* ATPredictor._rule_based_prediction: the probability of point i (1-based)
_rule_based_prediction(data_points, i) ==
    LET base == RerBand(Val(data_points[i].rer))
    IN  IF /\ i >= 11
           /\ Cardinality({data_points[j].vo2 : j \in (i - 10)..i}) > 1
           /\ SlopeAbove30(Val(data_points[i].ve) - Val(data_points[i - 10].ve),
                           Val(data_points[i].vo2) - Val(data_points[i - 10].vo2))
        THEN Min2(10, base + 2)
        ELSE base

\* ATPredictor.decode_time_pred for a whole-number index
decode_time_pred(time_pred_index, times) ==
    IF IsNone(time_pred_index) \/ Len(times) = 0 THEN None
    ELSE
        LET max_idx == Max2(Len(times) - 1, 0)
            clamped == Min2(Max2(Val(time_pred_index), 0), max_idx)
        IN  Some(times[clamped + 1])

\* ATPredictor.decode_time_pred raises TypeError: float() of a null timestamp
decode_time_pred_raises(time_pred_index, data_points) ==
    /\ ~IsNone(time_pred_index)
    /\ Len(data_points) > 0
    /\ LET max_idx == Max2(Len(data_points) - 1, 0)
           clamped == Min2(Max2(Val(time_pred_index), 0), max_idx)
       IN  IsNone(data_points[clamped + 1].timestamp)

\* ATPredictor.predict_outputs.  model_out is what the PaceFormer network
\* returns when it is consulted: [prob, time_pred_index], each Optional.
\* raised: the call ends in an exception; prob: probs[-1] if probs.
predict_outputs(predictor, data_points, model_out) ==
    IF Len(data_points) = 0 THEN
        [raised |-> FALSE, error |-> "", prob |-> None, time_pred |-> None]
    ELSE IF ~predictor.model_loaded \/ Len(data_points) < predictor.min_points_for_model THEN
        IF _rule_based_raises(data_points)
        THEN [raised |-> TRUE, error |-> "TypeError", prob |-> None, time_pred |-> None]
        ELSE [raised |-> FALSE, error |-> "",
              prob |-> Some(_rule_based_prediction(data_points, Len(data_points))),
              time_pred |-> None]
    ELSE IF model_out.raises THEN
        \* self.model(...) is called outside of any try block
        [raised |-> TRUE, error |-> "RuntimeError", prob |-> None, time_pred |-> None]
    ELSE IF decode_time_pred_raises(model_out.time_pred_index, data_points) THEN
        [raised |-> TRUE, error |-> "TypeError", prob |-> None, time_pred |-> None]
    ELSE
        [raised |-> FALSE, error |-> "",
         prob |-> model_out.prob,
         time_pred |-> decode_time_pred(model_out.time_pred_index,
                                        [i \in 1..Len(data_points) |-> Val(data_points[i].timestamp)])]

----------------------------------------------------------------------------
(* RealtimeManager *)

\* SessionState as built in RealtimeManager.connect
NewSessionState(threshold, persistence, patient_id, mode) ==
    [ at_session |-> NewATOnlineSession(threshold, persistence, 60),
      data_count |-> 0,
      at_triggered |-> FALSE,
      trigger_time |-> None,
      patient_id |-> patient_id,
      mode |-> mode ]

\* the WebSocket object handed to connect()
WebSocket == "websocket"

\* a message sent to a WebSocket; by is 0 for connect() and the receive loop
\* and the task's number for a replay task
Message(by, body) == [by |-> by, body |-> body]

\* the coroutine of _run_simulation as scheduled by asyncio.create_task.
\*   pc      "created" before its first step, "delay" in asyncio.sleep between
\*           two items, "yield" between two items without a delay, "done"
\*           after a return or a break, "failed" after the except Exception
\*           branch, "cancelled" after the except CancelledError branch
\*   exam    the rows of the exam drawn by sample_exam_id, once loaded
\*   idx     the rows consumed from iter_samples
\*   closed_at  history: the pc at which disconnect() popped this task from
\*           sim_tasks, "" before
\*   speed   config.sim_speed, in thousandths
\*   slept   the sleep_sec of the asyncio.sleep the task is in or was in last
\*           (0 when it went on without one)
\*   waits   history: for each item handled, the sleep that ended right
\*           before it was handled
NewTask(sid, speed) ==
    [ session_id |-> sid, pc |-> "created", exam |-> <<>>, idx |-> 0,
      closed_at |-> "", speed |-> speed, slept |-> Rat(0, 1), waits |-> <<>> ]

NoSample == [kind |-> "none", fields |-> <<>>]

\* a value returned by a manager call.  type "raised" stands for an exception
\* leaving process_data; scored tells whether update_probability ran.
Response(type, error) ==
    [ type |-> type, error |-> error, timestamp |-> None, at_probability |-> 0,
      at_triggered |-> FALSE, predicted_at_time |-> None, intensity_zone |-> "",
      alerts |-> <<>>, data_count |-> 0, scored |-> FALSE, sample |-> NoSample,
      confidence |-> 0 ]

\* the CPETDataPoint built in RealtimeManager.process_data from a dict
ParsePoint(d) ==
    [ timestamp |-> Get(d, "timestamp", Some(0)),
      vo2 |-> Get(d, "vo2", Some(0)),
      ve |-> Get(d, "ve", Some(0)),
      rer |-> Get(d, "rer", Some(0)),
      work_rate |-> Get(d, "work_rate", Get(d, "power_load", Get(d, "power", Some(0)))) ]

\* round(c, 2) of a confidence c, in hundredths: 100 - k for the integer k
\* nearest to 100 * (1 - c) = sqrt(4 * q).  No q is half way between two k,
\* 16 * q being even and (2 * k + 1)^2 odd.
round2(q) ==
    100 - (CHOOSE k \in 0..100 :
               /\ (2 * k - 1) * (2 * k - 1) <= 16 * q \/ k = 0
               /\ 16 * q < (2 * k + 1) * (2 * k + 1))

\* the response dict of RealtimeManager.process_data.  round(p, 3) keeps a
\* probability given in tenths; confidence is in hundredths;
\* vo2_peak_prediction is computed from the result without a change of state
\* and is not part of this record.
Prediction(data, point, result, scored, data_count) ==
    [ Response("prediction", "") EXCEPT
        !.confidence = round2(result.confidence),
        !.timestamp = point.timestamp,
        !.at_probability = result.at_probability,
        !.at_triggered = result.at_triggered,
        !.predicted_at_time = result.predicted_at_time,
        !.intensity_zone = result.intensity_zone,
        !.alerts = result.alerts,
        !.data_count = data_count,
        !.scored = scored,
        !.sample = data ]

\* session_id in self.sessions
HasSession(sid) == ~IsNone(sessions[sid])

\* RealtimeManager._start_simulation
_start_simulation(sid, config) ==
    /\ tasks' = Append(tasks, NewTask(sid, config.sim_speed))
    /\ sim_tasks' = [sim_tasks EXCEPT ![sid] = Some(Len(tasks) + 1)]

\* self.pending_configs.pop(session_id, None): what is left of the registrations
PopConfig_Keeps(sid) == pending_configs
PopConfig(sid) == [pending_configs EXCEPT ![sid] = None]

\* RealtimeManager.connect
Connect(sid, threshold, persistence) ==
    LET config == pending_configs[sid]
        registered == ~IsNone(config)
    IN  /\ active_connections' = [active_connections EXCEPT ![sid] = Some(WebSocket)]
        /\ pending_configs' = PopConfig(sid)
        /\ sessions' = [sessions EXCEPT ![sid] = Some(
                IF registered
                THEN NewSessionState(Val(config).threshold, Val(config).persistence,
                                     Val(config).patient_id, Val(config).mode)
                ELSE NewSessionState(threshold, persistence, None, "device"))]
        /\ results' = [results EXCEPT ![sid] = <<>>]
        /\ pushed' = [pushed EXCEPT ![sid] = <<Message(0, Response("connected", ""))>>]
        /\ response' = Response("connected", "")
        /\ IF registered /\ Val(config).mode = "sim"
           THEN _start_simulation(sid, Val(config))
           ELSE UNCHANGED <<sim_tasks, tasks>>
        /\ UNCHANGED <<at_predictor, store_vars, plan, detector, endpoints>>

\* the tail of process_data, were the trigger not copied to the SessionState
Finish_NoCopy(sid, data, point, at_session, result, scored) ==
    LET session == Val(sessions[sid])
        resp == Prediction(data, point, result, scored, session.data_count + 1)
    IN  /\ sessions' = [sessions EXCEPT ![sid] = Some(
                [ session EXCEPT
                    !.at_session = at_session,
                    !.data_count = session.data_count + 1 ])]
        /\ response' = resp
        /\ results' = [results EXCEPT ![sid] = Append(@, resp)]

\* the tail of process_data once the ATOnlineResult is known
Finish(sid, data, point, at_session, result, scored) ==
    LET session == Val(sessions[sid])
        newly == result.at_triggered /\ ~session.at_triggered
        resp == Prediction(data, point, result, scored, session.data_count + 1)
    IN  /\ sessions' = [sessions EXCEPT ![sid] = Some(
                [ session EXCEPT
                    !.at_session = at_session,
                    !.data_count = session.data_count + 1,
                    !.at_triggered = IF newly THEN TRUE ELSE session.at_triggered,
                    !.trigger_time = IF newly THEN result.timestamp
                                     ELSE session.trigger_time ])]
        /\ response' = resp
        /\ results' = [results EXCEPT ![sid] = Append(@, resp)]

\* an exception leaves process_data after the sample was ingested
RaiseAfterIngest(sid, data, at_session, error) ==
    /\ sessions' = [sessions EXCEPT ![sid] = Some(
                [Val(@) EXCEPT !.at_session = at_session, !.data_count = @ + 1])]
    /\ response' = [Response("raised", error) EXCEPT !.sample = data]
    /\ UNCHANGED results

\* the warmup test of process_data: no scoring before the exercise started
IsWarmup_Never(power_load, at_session) == FALSE
IsWarmup(power_load, at_session) ==
    Val(power_load) <= 0 /\ ~at_session.has_exercise_started

\* RealtimeManager.process_data
ProcessData(sid, data, model_out) ==
    /\ UNCHANGED <<at_predictor, active_connections, pending_configs, sim_tasks,
                   store_vars, plan, detector, endpoints>>
    /\ IF ~HasSession(sid) THEN
           /\ response' = [Response("error", "Session not found") EXCEPT !.sample = data]
           /\ UNCHANGED <<sessions, results>>
       ELSE IF data.kind # "dict" THEN
           /\ response' = [Response("error", "Invalid data format") EXCEPT !.sample = data]
           /\ UNCHANGED <<sessions, results>>
       ELSE
           LET session == Val(sessions[sid])
               point == ParsePoint(data.fields)
               s1 == add_data_point(session.at_session, point)
               power_load == point.work_rate
           IN  IF IsNone(power_load) THEN
                   \* None <= 0 raises TypeError
                   RaiseAfterIngest(sid, data, s1, "TypeError")
               ELSE IF IsWarmup(power_load, s1) THEN
                   Finish(sid, data, point, s1,
                          [ timestamp |-> point.timestamp,
                            at_probability |-> 0,
                            at_triggered |-> session.at_triggered,
                            predicted_at_time |-> None,
                            confidence |-> 2500,
                            intensity_zone |-> "warmup",
                            alerts |-> <<>> ],
                          FALSE)
               ELSE
                   LET outputs == predict_outputs(at_predictor, s1.data_buffer, model_out)
                   IN  IF outputs.raised THEN RaiseAfterIngest(sid, data, s1, outputs.error)
                       ELSE
                           LET current_prob == IF IsNone(outputs.prob) THEN 0
                                               ELSE Val(outputs.prob)
                               up == update_probability(s1, current_prob,
                                                        outputs.time_pred, power_load)
                           IN  IF up.raised
                               THEN RaiseAfterIngest(sid, data, up.session, "TypeError")
                               ELSE Finish(sid, data, point, up.session, up.result, TRUE)

----------------------------------------------------------------------------
(* RealtimeManager: registrations, close, summary, the receive loop *)

\* SessionConfig (the fields read by connect and _run_simulation); sim_speed
\* is in thousandths
SessionConfig(patient_id, threshold, persistence, mode, sim_speed) ==
    [ patient_id |-> patient_id, threshold |-> threshold,
      persistence |-> persistence, mode |-> mode, sim_speed |-> sim_speed ]

\* RealtimeManager.register_session
RegisterSession(sid, config) ==
    /\ pending_configs' = [pending_configs EXCEPT ![sid] = Some(config)]
    /\ response' = Response("none", "")
    /\ UNCHANGED <<at_predictor, sessions, results, active_connections,
                   sim_tasks, tasks, pushed, store_vars, plan, detector, endpoints>>

\* task.cancel() leaves a running task to end in its except CancelledError branch
cancel_Noop(task) == task
cancel(task) ==
    IF task.pc \in {"created", "delay", "yield"}
    THEN [task EXCEPT !.pc = "cancelled"]
    ELSE task

\* what RealtimeManager.disconnect does to the registries
disconnect_KeepsTask(sid) ==
    /\ active_connections' = [active_connections EXCEPT ![sid] = None]
    /\ sessions' = [sessions EXCEPT ![sid] = None]
    /\ UNCHANGED <<sim_tasks, tasks>>
disconnect_ClosesAll(sid) ==
    /\ active_connections' = [x \in DOMAIN active_connections |-> None]
    /\ sessions' = [x \in DOMAIN sessions |-> None]
    /\ sim_tasks' = [sim_tasks EXCEPT ![sid] = None]
    /\ UNCHANGED tasks
disconnect(sid) ==
    /\ active_connections' = [active_connections EXCEPT ![sid] = None]
    /\ sessions' = [sessions EXCEPT ![sid] = None]
    /\ sim_tasks' = [sim_tasks EXCEPT ![sid] = None]
    /\ IF IsNone(sim_tasks[sid]) THEN UNCHANGED tasks
       ELSE LET task == tasks[Val(sim_tasks[sid])]
            IN  tasks' = [tasks EXCEPT ![Val(sim_tasks[sid])] =
                              [cancel(task) EXCEPT !.closed_at = task.pc]]

\* RealtimeManager.disconnect, called by websocket_endpoint when the client
\* went away
Disconnect(sid) ==
    /\ disconnect(sid)
    /\ response' = Response("none", "")
    /\ UNCHANGED <<at_predictor, pending_configs, results, pushed, store_vars, plan, detector, endpoints>>

\* RealtimeManager.get_session_summary; None is answered 404 by
\* GET /api/sessions/{session_id}
GetSessionSummary_Creates(sid) ==
    /\ response' = Response("summary", "")
    /\ sessions' = [sessions EXCEPT ![sid] =
                        IF IsNone(@) THEN Some(NewSessionState(7, 3, None, "device")) ELSE @]
    /\ UNCHANGED <<at_predictor, results, active_connections,
                   pending_configs, sim_tasks, tasks, pushed, store_vars, plan, detector, endpoints>>
GetSessionSummary(sid) ==
    /\ response' = IF ~HasSession(sid) THEN Response("not_found", "")
                   ELSE [ Response("summary", "") EXCEPT
                            !.data_count = Val(sessions[sid]).data_count,
                            !.at_triggered = Val(sessions[sid]).at_triggered ]
    /\ UNCHANGED <<at_predictor, sessions, results, active_connections,
                   pending_configs, sim_tasks, tasks, pushed, store_vars, plan, detector, endpoints>>

\* the exception that leaves process_data(sid, data), if one does
RaisedError(sid, data, model_out) ==
    IF ~HasSession(sid) \/ data.kind # "dict" THEN None
    ELSE
        LET point == ParsePoint(data.fields)
            s1 == add_data_point(Val(sessions[sid]).at_session, point)
        IN  IF IsNone(point.work_rate) THEN Some("TypeError")
            ELSE IF IsWarmup(point.work_rate, s1) THEN None
            ELSE
                LET outputs == predict_outputs(at_predictor, s1.data_buffer, model_out)
                    current_prob == IF IsNone(outputs.prob) THEN 0 ELSE Val(outputs.prob)
                IN  IF outputs.raised THEN Some(outputs.error)
                    ELSE IF update_probability(s1, current_prob, outputs.time_pred,
                                               point.work_rate).raised
                    THEN Some("TypeError")
                    ELSE None

\* one turn of the receive loop of websocket_endpoint: receive_json,
\* process_data, send_json; any exception closes the session
EndpointReceive(sid, data, model_out) ==
    /\ ~IsNone(active_connections[sid])
    /\ IF IsNone(RaisedError(sid, data, model_out)) THEN
           /\ ProcessData(sid, data, model_out)
           /\ pushed' = [pushed EXCEPT ![sid] = Append(@, Message(0, response'))]
           /\ UNCHANGED tasks
       ELSE
           /\ disconnect(sid)
           /\ response' = [Response("raised", Val(RaisedError(sid, data, model_out)))
                               EXCEPT !.sample = data]
           /\ UNCHANGED <<at_predictor, pending_configs, results, pushed,
                          store_vars, plan, detector, endpoints>>

----------------------------------------------------------------------------
(* CPETSimulator and the replay task *)

\* a cell of the exam's data frame: a finite number, NaN, an infinity, or no
\* such column (row.get answers None)
Num(v) == [kind |-> "num", v |-> v]
NaN == [kind |-> "nan", v |-> 0]
Inf == [kind |-> "inf", v |-> 0]
Missing == [kind |-> "missing", v |-> 0]

\* simulator._safe_float; default is an Optional
_safe_float(value, default) ==
    IF value.kind = "num" THEN Some(value.v) ELSE default

\* a row of the data frame (the columns read by the code modelled here)
Row(time, power_load, rer) ==
    [ Time |-> time, Power_Load |-> power_load, RER |-> rer,
      VE |-> Num(20), VO2 |-> Num(10) ]

\* CPETSimulator.build_sample_payload
build_sample_payload(row, timestamp) ==
    [ kind |-> "dict",
      fields |-> [ timestamp |-> Some(timestamp),
                   vo2 |-> _safe_float(row.VO2, None),
                   ve |-> _safe_float(row.VE, None),
                   rer |-> _safe_float(row.RER, None),
                   work_rate |-> _safe_float(row.Power_Load, None) ] ]

\* settings.delta_sec
delta_sec == 15

\* "Time" in df.columns: a column is there for every row or for none
HasTimeColumn(df) == \E i \in 1..Len(df) : df[i].Time.kind # "missing"

\* the timestamp iter_samples gives to row idx (0-based) of df
RowTimestamp_IndexOnly(df, idx, default_step) == idx * default_step
RowTimestamp(df, idx, default_step) ==
    IF HasTimeColumn(df)
    THEN Val(_safe_float(df[idx + 1].Time, Some(idx * default_step)))
    ELSE idx * default_step

\* the 1e-3 of speed_safe = max(speed, 1e-3), in thousandths
speed_eps == 1

\* sleep_sec = max(0.0, timestamp - prev_time) / max(speed, 1e-3), speed in
\* thousandths, as an exact fraction
sleep_sec_Signed(timestamp, prev_time, speed) ==
    Rat((timestamp - prev_time) * 1000, Max2(speed, speed_eps))
sleep_sec_NoFloor(timestamp, prev_time, speed) ==
    IF speed = 0 THEN Rat(1, 0)
    ELSE IF speed < 0 THEN Rat(0 - Max2(0, timestamp - prev_time) * 1000, 0 - speed)
    ELSE Rat(Max2(0, timestamp - prev_time) * 1000, speed)
sleep_sec(timestamp, prev_time, speed) ==
    Rat(Max2(0, timestamp - prev_time) * 1000, Max2(speed, speed_eps))

\* CPETSimulator.iter_samples: the items it yields, in order (an empty data
\* frame yields none)
iter_samples(df, speed, default_step) ==
    [ i \in 1..Len(df) |->
        [ sample |-> build_sample_payload(df[i], RowTimestamp(df, i - 1, default_step)),
          sleep_sec |-> IF i = 1 THEN Rat(0, 1)
                        ELSE sleep_sec(RowTimestamp(df, i - 1, default_step),
                                       RowTimestamp(df, i - 2, default_step), speed) ] ]

\* the test before each item, were it never true
Unregistered_Never(sid) == FALSE

\* session_id not in self.active_connections
Unregistered(sid) == IsNone(active_connections[sid])

SetTask(t, pc, exam, idx) ==
    tasks' = [tasks EXCEPT ![t] = [@ EXCEPT !.pc = pc, !.exam = exam, !.idx = idx]]

\* the task handled item idx after the sleep it was in, and goes on with the
\* sleep of the item just emitted
Handled(t, pc, exam, idx, item_sleep_sec) ==
    tasks' = [tasks EXCEPT ![t] =
                 [@ EXCEPT !.pc = pc, !.exam = exam, !.idx = idx,
                           !.waits = Append(@, tasks[t].slept),
                           !.slept = item_sleep_sec]]

\* one step of the coroutine of RealtimeManager._run_simulation, from where
\* it was suspended to its next suspension or its end; exam is the data frame
\* of the exam drawn by sample_exam_id
RunSimulation(t, exam, model_out) ==
    LET task == tasks[t]
        sid == task.session_id
        df == IF task.pc = "created" THEN exam ELSE task.exam
        items == iter_samples(df, task.speed, delta_sec)
        k == task.idx + 1
        frame == <<at_predictor, sessions, results, response,
                   active_connections, pending_configs, sim_tasks, pushed,
                   store_vars, plan, detector, endpoints>>
    IN  /\ task.pc \in {"created", "delay", "yield"}
        /\ IF task.pc = "created" /\ ~HasSession(sid) THEN
               \* session is None: return
               SetTask(t, "done", df, task.idx) /\ UNCHANGED frame
           ELSE IF k > Len(items) THEN
               \* the iterator is exhausted
               SetTask(t, "done", df, task.idx) /\ UNCHANGED frame
           ELSE IF Unregistered(sid) THEN
               \* break
               SetTask(t, "done", df, task.idx) /\ UNCHANGED frame
           ELSE
               /\ ProcessData(sid, items[k].sample, model_out)
               /\ IF response'.type = "raised" THEN
                      \* except Exception: the error message is sent
                      /\ pushed' = [pushed EXCEPT ![sid] =
                              Append(@, Message(t, Response("error", response'.error)))]
                      /\ Handled(t, "failed", df, k, items[k].sleep_sec)
                  ELSE
                      /\ pushed' = [pushed EXCEPT ![sid] =
                              Append(@, Message(t, [response' EXCEPT !.type = "prediction",
                                                                     !.sample = items[k].sample]))]
                      /\ Handled(t, IF items[k].sleep_sec.num > 0 THEN "delay" ELSE "yield",
                                 df, k, items[k].sleep_sec)

----------------------------------------------------------------------------
(* The inputs explored and the specifications *)

\* a raw inbound sample that is a JSON object
Dict(timestamp, work_rate, rer, ve, vo2) ==
    [ kind |-> "dict",
      fields |-> [ timestamp |-> Some(timestamp), work_rate |-> work_rate,
                   rer |-> rer, ve |-> Some(ve), vo2 |-> Some(vo2) ] ]

\* a raw inbound sample that is a JSON array
NotADict == [kind |-> "list", fields |-> <<>>]

\* the timestamp of the last sample ingested by the session, if any
LastTimestamp(sid) ==
    IF HasSession(sid) /\ Len(Val(sessions[sid]).at_session.timestamps) > 0
    THEN Last(Val(sessions[sid]).at_session.timestamps)
    ELSE None

\* the sender's clock: the first sample is at 0, a later one Delta after the last
Deltas == {15, 30}
NextTimestamps(sid, deltas) ==
    IF IsNone(LastTimestamp(sid)) THEN {0}
    ELSE {Val(LastTimestamp(sid)) + d : d \in deltas}

\* (work_rate, rer) of the well-formed samples: rest and load, one RER per band
Profiles ==
    { <<0, 80>>, <<0, 100>>, <<50, 85>>, <<50, 95>>, <<50, 100>> }

WellFormed(sid) ==
    { Dict(t, Some(p[1]), Some(p[2]), 20, 10) :
        t \in NextTimestamps(sid, Deltas), p \in Profiles }

\* samples with a null field, and a sample that is no object
Malformed(sid) ==
    { Dict(t, None, Some(95), 20, 10) : t \in NextTimestamps(sid, {15}) }
    \cup { Dict(t, Some(50), None, 20, 10) : t \in NextTimestamps(sid, {15}) }
    \cup { NotADict }

RawSamples(sid) == WellFormed(sid) \cup Malformed(sid)

\* the network is not consulted in a manager whose model failed to load
NoModelOut == [raises |-> FALSE, prob |-> None, time_pred_index |-> None]

\* the exams that readers annotate
ExamIds == {"e1", "e2"}

\* the annotation store after init_db on a fresh file
InitStore ==
    /\ annotations = <<>>
    /\ consensus = [e \in ExamIds |-> None]
    /\ clock = 0
    /\ txns = <<>>
    /\ reply = [status_code |-> 0, detail |-> "", exam_id |-> "", state |-> None]

CanCall(sid, bound) ==
    IF HasSession(sid) THEN Val(sessions[sid]).data_count < bound ELSE TRUE

InitWith(model_loaded, min_points) ==
    /\ at_predictor = NewATPredictor(model_loaded, min_points)
    /\ sessions = [sid \in SessionIds |-> None]
    /\ response = Response("none", "")
    /\ results = [sid \in SessionIds |-> <<>>]
    /\ active_connections = [sid \in SessionIds |-> None]
    /\ pending_configs = [sid \in SessionIds |-> None]
    /\ sim_tasks = [sid \in SessionIds |-> None]
    /\ tasks = <<>>
    /\ pushed = [sid \in SessionIds |-> <<>>]
    /\ InitStore
    /\ plan = None
    /\ detector = NoDetector
    /\ endpoints = NoEndpoints(SessionIds)

\* the manager after the fallback to the rule-based predictor
Init == InitWith(FALSE, 8)

DoConnect ==
    \E sid \in SessionIds, t \in Thresholds, n \in Persistences : Connect(sid, t, n)

DoProcessData ==
    \E sid \in SessionIds :
        /\ CanCall(sid, MaxCalls)
        /\ \E data \in RawSamples(sid) : ProcessData(sid, data, NoModelOut)
        /\ UNCHANGED <<tasks, pushed>>

Next == DoConnect \/ DoProcessData

Spec == Init /\ [][Next]_vars

----------------------------------------------------------------------------
(* A manager whose PaceFormer network is loaded: what the network returns is
   an input *)

InitModel == InitWith(TRUE, MinPointsConfigured)

ModelProfiles == { <<0, 95>>, <<50, 100>> }

ModelSamples(sid) ==
    { Dict(t, Some(p[1]), Some(p[2]), 20, 10) :
        t \in NextTimestamps(sid, {15}), p \in ModelProfiles }

\* probs[-1] and the index time_pred of the network's outputs, or the
\* network raising (a RuntimeError of torch)
ModelOuts ==
    { [raises |-> FALSE, prob |-> Some(p), time_pred_index |-> i] :
        p \in {2, 8}, i \in {None, Some(0), Some(1)} }
    \cup { [raises |-> TRUE, prob |-> None, time_pred_index |-> None] }

DoProcessDataModel ==
    \E sid \in SessionIds :
        /\ CanCall(sid, MaxCallsModel)
        /\ \E data \in ModelSamples(sid), out \in ModelOuts : ProcessData(sid, data, out)
        /\ UNCHANGED <<tasks, pushed>>

NextModel == DoConnect \/ DoProcessDataModel

SpecModel == InitModel /\ [][NextModel]_vars

----------------------------------------------------------------------------
(* Long runs of evenly spaced samples under load, rule-based predictor *)

ThresholdsLong == {5, 7}
PersistencesLong == {3}
StartsLong == {-300, 0}
StepsLong == {-15, 0, 15}

\* the first timestamp is a start, the second a step later, the following
\* ones keep the step
NextTimestampsLong(sid) ==
    IF IsNone(LastTimestamp(sid)) THEN StartsLong
    ELSE
        LET ts == Val(sessions[sid]).at_session.timestamps
        IN  IF Len(ts) = 1 THEN {Val(ts[1]) + d : d \in StepsLong}
            ELSE {Val(ts[Len(ts)]) + (Val(ts[Len(ts)]) - Val(ts[Len(ts) - 1]))}

\* (rer, ve, vo2) under a work rate of 50 W
LongProfiles == { <<85, 20, 10>>, <<95, 60, 11>> }

LongSamples(sid) ==
    { Dict(t, Some(50), Some(p[1]), p[2], p[3]) :
        t \in NextTimestampsLong(sid), p \in LongProfiles }

DoConnectLong ==
    \E sid \in SessionIds, t \in ThresholdsLong, n \in PersistencesLong : Connect(sid, t, n)

DoProcessDataLong ==
    \E sid \in SessionIds :
        /\ CanCall(sid, MaxCallsLong)
        /\ \E data \in LongSamples(sid) : ProcessData(sid, data, NoModelOut)
        /\ UNCHANGED <<tasks, pushed>>

NextLong == DoConnectLong \/ DoProcessDataLong

SpecLong == Init /\ [][NextLong]_vars

----------------------------------------------------------------------------
(* The manager with registrations, replay tasks and closes, rule-based
   predictor *)

\* replay tasks created in a run
MaxTasks == 1

\* samples a session object takes from its receive loop
MaxCallsLive == 2

\* the ids known to the manager
Ids == DOMAIN sessions

\* SessionCreateRequest as registered by POST /api/sessions
Configs ==
    { SessionConfig(Some("p1"), 5, 1, "sim", 1000),
      SessionConfig(Some("p1"), 5, 2, "device", 1000) }

\* the parameters websocket_endpoint leaves to connect(): its defaults
DefaultThreshold == 7
DefaultPersistence == 3

\* the exams of the data set: a clean one, and one whose second row has no
\* finite work rate and whose third row has no finite RER and no finite time
Exams ==
    { << >>,
      << Row(Num(0), Num(0), Num(80)), Row(Num(15), Num(50), Num(100)),
         Row(Num(30), Num(50), Num(100)) >>,
      << Row(Num(0), Num(50), Num(100)), Row(Num(15), NaN, Num(100)),
         Row(Inf, Num(50), Missing) >> }

LiveSamples(sid) ==
    { Dict(t, Some(50), Some(100), 20, 10) : t \in NextTimestamps(sid, {15}) }
    \cup { Dict(t, None, Some(100), 20, 10) : t \in NextTimestamps(sid, {15}) }

PendingSims ==
    {sid \in Ids : ~IsNone(pending_configs[sid]) /\ Val(pending_configs[sid]).mode = "sim"}

RegisterAny(configs, max_tasks) ==
    \E sid \in Ids, config \in configs :
        /\ Len(tasks) + Cardinality(PendingSims \cup {sid}) <= max_tasks
        /\ RegisterSession(sid, config)

ReceiveAny(max_calls) ==
    \E sid \in Ids :
        /\ CanCall(sid, max_calls)
        /\ \E data \in LiveSamples(sid) : EndpointReceive(sid, data, NoModelOut)

ReplayAny(exams) ==
    \E t \in DOMAIN tasks :
        \E exam \in (IF tasks[t].pc = "created" THEN exams ELSE {tasks[t].exam}) :
            RunSimulation(t, exam, NoModelOut)

DoRegisterSession == RegisterAny(Configs, MaxTasks)

DoConnectDefault ==
    \E sid \in Ids : Connect(sid, DefaultThreshold, DefaultPersistence)

DoDisconnect ==
    \E sid \in Ids : Disconnect(sid)

DoGetSessionSummary ==
    \E sid \in Ids : GetSessionSummary(sid)

\* a caller hands process_data an id that is not open
DoProcessDataUnknown ==
    \E sid \in Ids :
        /\ ~HasSession(sid)
        /\ \E data \in LiveSamples(sid) : ProcessData(sid, data, NoModelOut)
        /\ UNCHANGED <<tasks, pushed>>

DoEndpointReceive == ReceiveAny(MaxCallsLive)

DoRunSimulation == ReplayAny(Exams)

NextReplay ==
    \/ DoRegisterSession
    \/ DoConnectDefault
    \/ DoDisconnect
    \/ DoGetSessionSummary
    \/ DoProcessDataUnknown
    \/ DoEndpointReceive
    \/ DoRunSimulation

SpecReplay == Init /\ [][NextReplay]_vars

----------------------------------------------------------------------------
(* Two sessions side by side *)

\* the two session ids
IdsIso == {"s1", "s2"}

\* replay tasks created in a run, samples a session object takes from its
\* receive loop
MaxTasksIso == 1
MaxCallsIso == 1

ConfigsIso == { SessionConfig(Some("p1"), 5, 1, "sim", 1000) }

\* one exam, whose second row has no finite work rate
ExamsIso ==
    { << Row(Num(0), Num(50), Num(100)), Row(Num(15), NaN, Num(100)) >> }

InitIso ==
    /\ at_predictor = NewATPredictor(FALSE, 8)
    /\ sessions = [sid \in IdsIso |-> None]
    /\ response = Response("none", "")
    /\ results = [sid \in IdsIso |-> <<>>]
    /\ active_connections = [sid \in IdsIso |-> None]
    /\ pending_configs = [sid \in IdsIso |-> None]
    /\ sim_tasks = [sid \in IdsIso |-> None]
    /\ tasks = <<>>
    /\ pushed = [sid \in IdsIso |-> <<>>]
    /\ InitStore
    /\ plan = None
    /\ detector = NoDetector
    /\ endpoints = NoEndpoints(IdsIso)

DoRegisterSessionIso == RegisterAny(ConfigsIso, MaxTasksIso)
DoEndpointReceiveIso == ReceiveAny(MaxCallsIso)
DoRunSimulationIso == ReplayAny(ExamsIso)

NextIso ==
    \/ DoRegisterSessionIso
    \/ DoConnectDefault
    \/ DoDisconnect
    \/ DoGetSessionSummary
    \/ DoProcessDataUnknown
    \/ DoEndpointReceiveIso
    \/ DoRunSimulationIso

SpecIso == InitIso /\ [][NextIso]_vars

----------------------------------------------------------------------------
(* Properties *)

\* the detector of an open session
Detector(sid) == Val(sessions[sid]).at_session

\* the Detection Results of the updates (update_probability ran), in order
Updates(sid) == SelectSeq(results[sid], LAMBDA r : r.scored)

\* the work rate of the sample a Detection Result answers
WorkRate(r) == Val(r.sample.fields.work_rate)

\* C1: once a Detection Result of a session has at_triggered = true, every
\* later Detection Result of that session has at_triggered = true.
C1_StickyTrigger ==
    \A sid \in SessionIds :
        \A i, j \in 1..Len(results[sid]) :
            (i < j /\ results[sid][i].at_triggered) => results[sid][j].at_triggered

\* a triggered result is followed by the result of a recovery sample whose
\* probability is below the threshold
C1_Witness ==
    \E sid \in SessionIds :
        /\ HasSession(sid)
        /\ \E i, j \in 1..Len(results[sid]) :
              /\ i < j
              /\ results[sid][i].at_triggered
              /\ results[sid][j].at_triggered
              /\ results[sid][j].scored
              /\ results[sid][j].at_probability < Detector(sid).threshold
              /\ WorkRate(results[sid][j]) <= 0

\* update k closes a run of N probabilities >= T
WindowAt(U, k, T, N) ==
    k >= N /\ \A j \in (k - N + 1)..k : U[j].at_probability >= T

\* C2: a session is triggered by exactly the first update whose probability
\* and the N-1 preceding update probabilities are all >= T, no earlier one,
\* and the trigger time is the timestamp of that update's sample.
C2_DebouncedTrigger ==
    \A sid \in SessionIds :
        HasSession(sid) =>
            LET U == Updates(sid)
                T == Detector(sid).threshold
                N == Detector(sid).persistence
            IN  /\ \A k \in 1..Len(U) :
                      U[k].at_triggered <=> \E k2 \in 1..k : WindowAt(U, k2, T, N)
                /\ Detector(sid).at_triggered <=> \E k \in 1..Len(U) : WindowAt(U, k, T, N)
                /\ \A k \in 1..Len(U) :
                      (WindowAt(U, k, T, N) /\ \A k2 \in 1..(k - 1) : ~WindowAt(U, k2, T, N))
                          => Detector(sid).trigger_time = U[k].timestamp

\* persistence 3: the probabilities 0.5, 0.7, 0.7, 0.7 trigger on the 4th update
C2_Witness ==
    \E sid \in SessionIds :
        /\ HasSession(sid)
        /\ Detector(sid).persistence = 3
        /\ LET U == Updates(sid)
           IN  /\ Len(U) = 4
               /\ U[1].at_probability < Detector(sid).threshold
               /\ ~U[3].at_triggered
               /\ U[4].at_triggered
               /\ Detector(sid).trigger_time = U[4].timestamp

\* C3: on a session that is not triggered, an update with a probability below
\* the threshold leaves the consecutive-above-threshold counter at 0.
C3_CounterReset ==
    \A sid \in SessionIds :
        (HasSession(sid) /\ Len(Updates(sid)) > 0) =>
            LET r == Last(Updates(sid))
            IN  (~Detector(sid).at_triggered /\ r.at_probability < Detector(sid).threshold)
                    => Detector(sid).consecutive_above_threshold = 0

\* the counter was 1 before the update that reset it
C3_Witness ==
    \E sid \in SessionIds :
        /\ HasSession(sid)
        /\ Detector(sid).persistence >= 2
        /\ LET U == Updates(sid)
           IN  /\ Len(U) >= 2
               /\ U[Len(U) - 1].at_probability >= Detector(sid).threshold
               /\ U[Len(U)].at_probability < Detector(sid).threshold
               /\ ~Detector(sid).at_triggered
               /\ Detector(sid).consecutive_above_threshold = 0

\* C4: on a triggered session the estimated crossing time of every update is
\* the recorded trigger time, also when the scoring function supplies a direct
\* estimate.
C4_TriggeredEstimateIsTriggerTime ==
    \A sid \in SessionIds :
        HasSession(sid) =>
            \A k \in 1..Len(Updates(sid)) :
                Updates(sid)[k].at_triggered =>
                    /\ ~IsNone(Updates(sid)[k].predicted_at_time)
                    /\ RatEq(Val(Updates(sid)[k].predicted_at_time),
                             RatOfInt(Val(Detector(sid).trigger_time)))

\* the last Detection Result is the one of the last sample ingested, an update
\* that left the session not triggered
FreshUntriggered(sid) ==
    /\ HasSession(sid)
    /\ Len(results[sid]) > 0
    /\ Last(results[sid]).data_count = Val(sessions[sid]).data_count
    /\ Last(results[sid]).scored
    /\ ~Last(results[sid]).at_triggered

\* fewer than 10 probabilities, or no rise of the probability or no advance of
\* the time over the last 10 probabilities and timestamps
NoTrend(s) ==
    \/ Len(s.prob_history) < 10
    \/ Len(s.timestamps) < 10
    \/ Last(s.prob_history) - s.prob_history[Len(s.prob_history) - 9] <= 0
    \/ Val(Last(s.timestamps)) - Val(s.timestamps[Len(s.timestamps) - 9]) <= 0

Loaded(sid) ==
    SelectSeq(results[sid], LAMBDA r : r.scored /\ r.at_triggered /\ WorkRate(r) > 0)

\* C6 as stated: for an update with work rate > 0 on a triggered session the
\* zone is 'threshold' only if (timestamp - recorded trigger time) <= 30 s and
\* it is 'anaerobic' if that elapsed time is > 30 s.
C6_ElapsedSinceTrigger ==
    \A sid \in SessionIds :
        HasSession(sid) =>
            \A k \in 1..Len(Loaded(sid)) :
                LET r == Loaded(sid)[k]
                    elapsed == Val(r.timestamp) - Val(Detector(sid).trigger_time)
                IN  /\ r.intensity_zone = "threshold" => elapsed <= 30
                    /\ elapsed > 30 => r.intensity_zone = "anaerobic"

\* C6 amended: the 30 s run from the transition anchor, the timestamp of the
\* first update with work rate > 0 handled while the session is triggered;
\* the anchor is the trigger time when the triggering update had work rate > 0.
C6_ElapsedSinceAnchor ==
    \A sid \in SessionIds :
        (HasSession(sid) /\ Len(Loaded(sid)) > 0) =>
            LET L == Loaded(sid)
                anchor == Val(L[1].timestamp)
            IN  /\ Detector(sid).vt1_trigger_time = Some(anchor)
                /\ (AlertTriggered \in {L[1].alerts[i] : i \in 1..Len(L[1].alerts)})
                      => Detector(sid).trigger_time = Some(anchor)
                /\ \A k \in 1..Len(L) :
                      LET elapsed == Val(L[k].timestamp) - anchor
                      IN  /\ L[k].intensity_zone = "threshold" <=> elapsed <= 30
                          /\ L[k].intensity_zone = "anaerobic" <=> elapsed > 30

\* the trigger came on a recovery update; a later update with work rate > 0 is
\* in the threshold zone more than 30 s after the trigger time
C6_Witness ==
    \E sid \in SessionIds :
        /\ HasSession(sid)
        /\ \E k \in 1..Len(Loaded(sid)) :
              /\ Loaded(sid)[k].intensity_zone = "threshold"
              /\ Val(Loaded(sid)[k].timestamp) - Val(Detector(sid).trigger_time) > 30
              /\ Val(Loaded(sid)[k].timestamp) - Val(Detector(sid).vt1_trigger_time) = 30

\* some Detection Result before the k-th answered a sample with work rate > 0
StartedBefore(sid, k) == \E i \in 1..(k - 1) : WorkRate(results[sid][i]) > 0

Triggering(sid, k) ==
    /\ results[sid][k].at_triggered
    /\ (k = 1 \/ ~results[sid][k - 1].at_triggered)

\* C9: the trigger alert is in the result of the triggering update and in no
\* other; while not triggered a result carries exactly the near-threshold alert
\* for a probability >= 0.5, exactly the aerobic-zone alert for 0.3 <= p < 0.5
\* and none below 0.3; no result carries more than one alert.
C9_Alerts ==
    \A sid \in SessionIds :
        \A k \in 1..Len(results[sid]) :
            LET r == results[sid][k]
            IN  /\ Len(r.alerts) <= 1
                /\ r.alerts = IF Triggering(sid, k) THEN <<AlertTriggered>>
                              ELSE IF r.at_triggered THEN <<>>
                              ELSE IF r.at_probability >= 5 THEN <<AlertNear>>
                              ELSE IF r.at_probability >= 3 THEN <<AlertAerobic>>
                              ELSE <<>>

\* one session produced the aerobic-zone, the near-threshold and the trigger
\* alert, and a result without alert after the trigger
C9_Witness ==
    \E sid \in SessionIds :
        \E i, j, k, l \in 1..Len(results[sid]) :
            /\ results[sid][i].alerts = <<AlertAerobic>>
            /\ results[sid][j].alerts = <<AlertNear>>
            /\ results[sid][k].alerts = <<AlertTriggered>>
            /\ k < l
            /\ results[sid][l].alerts = <<>>
            /\ results[sid][l].at_probability >= 5

\* C10: a call of process_data that returns an error or raises leaves the
\* session's state as it was before the call.
C10_NoPartialMutation ==
    [][response'.type \in {"error", "raised"} => sessions' = sessions]_vars

\* C12: when the scoring function (the PaceFormer network) raises while a
\* sample is handled, a Detection Result is still produced: no exception of
\* the scoring function leaves process_data.
C12_ScoringFailureDegrades ==
    ~(response.type = "raised" /\ response.error = "RuntimeError")

\* the registries of the manager and what hangs on them
registries == <<sessions, active_connections, pending_configs, sim_tasks, tasks>>

\* a cell that _safe_float turns into None
NonFinite(cell) == cell.kind # "num"

\* the row a replay task consumed last
LastRow(task) == task.exam[task.idx]

\* C11: when a replayed row has a missing or non-finite numeric field (the
\* work rate in particular), handling its sample yields a Detection Result
\* and not an error, and the replay task goes on: no replay task ends in its
\* error branch on such a row.
C11_ReplaySurvivesMissingData ==
    \A t \in DOMAIN tasks :
        (tasks[t].idx > 0 /\ NonFinite(LastRow(tasks[t]).Power_Load))
            => tasks[t].pc # "failed"

\* the messages pushed for a session on behalf of task t
PushedBy(sid, t) == SelectSeq(pushed[sid], LAMBDA m : m.by = t)

\* C13: once disconnect has been called for a session whose replay task was
\* suspended in an inter-item delay, the task has ended in its cancellation
\* branch (no exception escapes, no error message), and from then on it
\* consumes no further row and pushes no further message.
C13_CloseStopsReplay ==
    [][ \A t \in DOMAIN tasks :
            tasks[t].closed_at = "delay" =>
                /\ tasks[t].pc = "cancelled"
                /\ tasks'[t] = tasks[t]
                /\ \A sid \in Ids :
                      Len(PushedBy(sid, t)') <= Len(PushedBy(sid, t)) ]_vars

\* a task closed in a delay with rows left, and the id has been opened again
\* and has taken a sample since
C13_Witness ==
    \E t \in DOMAIN tasks :
        /\ tasks[t].closed_at = "delay"
        /\ tasks[t].idx < Len(tasks[t].exam)
        /\ HasSession(tasks[t].session_id)
        /\ Val(sessions[tasks[t].session_id]).data_count > 0

\* sid has no connection handle, no session state and no replay-task entry
Closed(sid) ==
    IsNone(active_connections[sid]) /\ IsNone(sessions[sid]) /\ IsNone(sim_tasks[sid])

\* C14: disconnect(sid) removes the connection handle, the session state and
\* the replay-task entry of sid and leaves that task cancelled or ended; on
\* an id with none of the three (closed before, or never opened) it changes
\* nothing.
C14_CloseRemovesAndIsIdempotent ==
    [][ \A sid \in Ids :
            Disconnect(sid) =>
                /\ Closed(sid)'
                /\ ~IsNone(sim_tasks[sid]) =>
                      tasks'[Val(sim_tasks[sid])].pc \in {"cancelled", "done", "failed"}
                /\ Closed(sid) =>
                      UNCHANGED <<registries, results, pushed, at_predictor>> ]_vars

\* a session with a suspended replay task was closed, and closed again
C14_Witness ==
    \E t \in DOMAIN tasks :
        /\ tasks[t].pc = "cancelled"
        /\ tasks[t].closed_at \in {"created", "delay", "yield"}
        /\ Closed(tasks[t].session_id)
        /\ response.type = "none"

\* the session state connect() builds without a registration
DefaultSession ==
    NewSessionState(DefaultThreshold, DefaultPersistence, None, "device")

\* C15: an open of sid with a registration uses the registered threshold,
\* persistence, subject reference and mode and removes the registration; an
\* open of sid without one (a later open included) uses the defaults and
\* starts no replay task.
C15_RegistrationAppliedOnce ==
    [][ \A sid \in Ids :
            Connect(sid, DefaultThreshold, DefaultPersistence) =>
                /\ IsNone(pending_configs'[sid])
                /\ IF IsNone(pending_configs[sid]) THEN
                       /\ sessions'[sid] = Some(DefaultSession)
                       /\ UNCHANGED <<sim_tasks, tasks>>
                   ELSE
                       LET config == Val(pending_configs[sid])
                           session == Val(sessions'[sid])
                       IN  /\ session.at_session.threshold = config.threshold
                           /\ session.at_session.persistence = config.persistence
                           /\ session.patient_id = config.patient_id
                           /\ session.mode = config.mode
                           /\ config.mode = "sim" =>
                                 /\ Len(tasks') = Len(tasks) + 1
                                 /\ sim_tasks'[sid] = Some(Len(tasks')) ]_vars

\* an id whose registered open started a replay task is open again, with
\* the defaults
C15_Witness ==
    \E t \in DOMAIN tasks :
        LET sid == tasks[t].session_id
        IN  /\ IsNone(pending_configs[sid])
            /\ HasSession(sid)
            /\ Val(sessions[sid]).mode = "device"
            /\ Detector(sid).threshold = DefaultThreshold

\* the Detection Results among the messages pushed for a session
PushedResults(sid) ==
    SelectSeq(pushed[sid], LAMBDA m : m.body.type = "prediction")

\* C16: the detector state of a session is driven by one task only, the
\* receive loop of its connection or one replay task: the Detection Results
\* pushed for a session object all come from the same driver.
C16_SingleDriver ==
    \A sid \in Ids :
        \A i, j \in 1..Len(PushedResults(sid)) :
            PushedResults(sid)[i].by = PushedResults(sid)[j].by

\* C17: the k-th Detection Result pushed for a session answers the k-th
\* sample the session ingested and carries the sample count k.
C17_PerSessionFIFO ==
    \A sid \in Ids :
        HasSession(sid) =>
            \A k \in 1..Len(PushedResults(sid)) :
                /\ PushedResults(sid)[k].body.data_count = k
                /\ k <= Len(Detector(sid).data_buffer)
                /\ Detector(sid).data_buffer[k]
                       = ParsePoint(PushedResults(sid)[k].body.sample.fields)

\* the step changes something of session x: its session state (detector,
\* sample count, trigger state), its connection handle, its replay-task
\* entry, one of its replay tasks, or what was pushed to its connection
Changed(x) ==
    \/ sessions'[x] # sessions[x]
    \/ active_connections'[x] # active_connections[x]
    \/ sim_tasks'[x] # sim_tasks[x]
    \/ pushed'[x] # pushed[x]
    \/ \E t \in DOMAIN tasks' :
          /\ tasks'[t].session_id = x
          /\ IF t \in DOMAIN tasks THEN tasks'[t] # tasks[t] ELSE TRUE

\* C18: a step of the manager (open, inbound sample, replay step, failure,
\* close) on one session leaves every other session unchanged: no step
\* changes the state of two sessions.
C18_SessionIsolation ==
    [][ \A a, b \in Ids : (a # b) => ~(Changed(a) /\ Changed(b)) ]_vars

\* one session is open with a replay task that failed after its first row,
\* while the other one, opened and fed by its receive loop, still has its
\* sample
C18_Witness ==
    \E a, b \in Ids :
        /\ a # b
        /\ HasSession(a) /\ Val(sessions[a]).data_count = 2
        /\ \E t \in DOMAIN tasks : tasks[t].session_id = a /\ tasks[t].pc = "failed"
        /\ HasSession(b) /\ Val(sessions[b]).data_count = 1
        /\ Len(PushedResults(b)) = 1

\* C19: a sample with work rate <= 0 taken before the exercise started is
\* answered without scoring (whatever the network would do) by a result with
\* probability 0, zone "warmup", no estimate and no alerts; the probability
\* history, the counter, the trigger flag and the trigger time of the detector
\* are unchanged, and the sample is appended to the buffer and counted.
C19_WarmupSkip ==
    [][ \A sid \in SessionIds :
            LET data == response'.sample
                point == ParsePoint(data.fields)
            IN  ( /\ HasSession(sid)
                  /\ data.kind = "dict"
                  /\ ~IsNone(point.work_rate)
                  /\ Val(point.work_rate) <= 0
                  /\ ~Detector(sid).has_exercise_started )
                =>
                ( /\ response'.type = "prediction"
                  /\ ~response'.scored
                  /\ response'.at_probability = 0
                  /\ response'.intensity_zone = "warmup"
                  /\ IsNone(response'.predicted_at_time)
                  /\ response'.alerts = <<>>
                  /\ Detector(sid)'.prob_history = Detector(sid).prob_history
                  /\ Detector(sid)'.consecutive_above_threshold
                        = Detector(sid).consecutive_above_threshold
                  /\ Detector(sid)'.at_triggered = Detector(sid).at_triggered
                  /\ Detector(sid)'.trigger_time = Detector(sid).trigger_time
                  /\ Detector(sid)'.data_buffer = Append(Detector(sid).data_buffer, point)
                  /\ Val(sessions'[sid]).data_count = Val(sessions[sid]).data_count + 1
                  /\ response'.data_count = Val(sessions'[sid]).data_count ) ]_vars

\* two rest samples were skipped; the second one came with a buffer long
\* enough for the network
C19_Witness ==
    \E sid \in SessionIds :
        /\ HasSession(sid)
        /\ at_predictor.model_loaded
        /\ Len(results[sid]) >= at_predictor.min_points_for_model
        /\ \A k \in 1..Len(results[sid]) :
              ~results[sid][k].scored /\ results[sid][k].intensity_zone = "warmup"
        /\ Val(sessions[sid]).data_count = Len(results[sid])

\* C20: process_data on an id that is not open answers "Session not found",
\* get_session_summary on it answers None, and get_session_summary on an open
\* id answers a summary; none of these calls changes a registry, a session,
\* a task or what was pushed.
C20_UnknownSessionReadOnly ==
    [][ \A sid \in Ids :
            /\ ( /\ ~HasSession(sid)
                  /\ response' # response
                  /\ ProcessData(sid, response'.sample, NoModelOut) ) =>
                  /\ response'.type = "error"
                  /\ response'.error = "Session not found"
                  /\ UNCHANGED <<registries, results, pushed, at_predictor>>
            /\ GetSessionSummary(sid) =>
                  /\ response'.type = IF HasSession(sid) THEN "summary" ELSE "not_found"
                  /\ UNCHANGED <<registries, results, pushed, at_predictor>> ]_vars

\* a sample for an id that is not open was answered while the other session
\* is open and has data
C20_Witness ==
    /\ response.type = "error"
    /\ response.error = "Session not found"
    /\ \E a, b \in Ids :
          /\ ~HasSession(a)
          /\ HasSession(b) /\ Val(sessions[b]).data_count > 0


----------------------------------------------------------------------------
(* The replay plan of CPETSimulator.iter_samples on its own: the data frame,
   the speed and the default step are inputs *)

\* rows of a data frame
MaxRows == 3

\* the Time cells of a frame that has the column
TimeCells == { Num(0), Num(10), Num(25), NaN }

\* row i of a frame carries a work rate of its own, so that the order of
\* the items can be told
FrameOf(cells) == [ i \in 1..Len(cells) |-> Row(cells[i], Num(10 * i), Num(100)) ]

CellsOfLen(n) == [1..n -> TimeCells]

PlanFrames ==
    { FrameOf(cells) : cells \in UNION { CellsOfLen(n) : n \in 0..MaxRows } }
    \cup { FrameOf([i \in 1..n |-> Missing]) : n \in 1..MaxRows }

\* config.sim_speed in thousandths: negative, zero, below epsilon's
\* thousandfold, one, two
Speeds == { -1000, 0, 500, 1000, 2000 }

DefaultSteps == { delta_sec, 10 }

\* one call of iter_samples, drained
IterSamples(df, speed, default_step) ==
    /\ plan' = Some([ df |-> df, speed |-> speed, default_step |-> default_step,
                      items |-> iter_samples(df, speed, default_step) ])
    /\ UNCHANGED <<manager_vars, store_vars, detector, endpoints>>

\* one call in a run: the plan depends on the arguments alone
DoIterSamples ==
    /\ IsNone(plan)
    /\ \E df \in PlanFrames, speed \in Speeds, default_step \in DefaultSteps :
           IterSamples(df, speed, default_step)

NextPlan == DoIterSamples

SpecPlan == Init /\ [][NextPlan]_vars

\* the timestamp item i of a plan carries
ItemTime(items, i) == Val(items[i].sample.fields.timestamp)

\* the Time cells of a frame
TimesOf(df) == [ i \in 1..Len(df) |-> df[i].Time ]

\* C21: in every plan the first item's delay is 0, item i's delay is
\* max(0, t_i - t_(i-1)) / max(speed, epsilon) over the timestamps the items
\* carry, and every delay is finite and not negative, whatever the speed and
\* the order of the timestamps; times [0, 10, 25] at speed 2 give [0, 5, 7.5]
C21_PlanDelays ==
    ~IsNone(plan) =>
        LET p == Val(plan)
            items == p.items
        IN  /\ Len(items) >= 1 => RatEq(items[1].sleep_sec, Rat(0, 1))
            /\ \A i \in 2..Len(items) :
                   RatEq(items[i].sleep_sec,
                         Rat(Max2(0, ItemTime(items, i) - ItemTime(items, i - 1)) * 1000,
                             Max2(p.speed, speed_eps)))
            /\ \A i \in 1..Len(items) :
                   /\ items[i].sleep_sec.den > 0
                   /\ items[i].sleep_sec.num >= 0
            /\ (TimesOf(p.df) = <<Num(0), Num(10), Num(25)>> /\ p.speed = 2000) =>
                   /\ RatEq(items[2].sleep_sec, Rat(5, 1))
                   /\ RatEq(items[3].sleep_sec, Rat(15, 2))

\* a plan at speed zero over timestamps that go back
C21_Witness ==
    /\ ~IsNone(plan)
    /\ Val(plan).speed = 0
    /\ Len(Val(plan).items) = 3
    /\ ItemTime(Val(plan).items, 2) < ItemTime(Val(plan).items, 1)
    /\ ItemTime(Val(plan).items, 3) > ItemTime(Val(plan).items, 2)

\* C23: a plan has one item per row, in row order, and item i carries the
\* row's Time when the column is there and the cell is finite, else
\* (i - 1) * default_step; no column and step 15 give [0, 15, 30]
C23_PlanTimestamps ==
    ~IsNone(plan) =>
        LET p == Val(plan)
            items == p.items
        IN  /\ Len(items) = Len(p.df)
            /\ \A i \in 1..Len(items) :
                   /\ items[i].sample.fields.work_rate = Some(p.df[i].Power_Load.v)
                   /\ ItemTime(items, i) =
                          IF p.df[i].Time.kind = "num" THEN p.df[i].Time.v
                          ELSE (i - 1) * p.default_step
            /\ ( /\ Len(p.df) = 3
                 /\ \A i \in 1..3 : p.df[i].Time = Missing
                 /\ p.default_step = 15 ) =>
                   [ i \in 1..3 |-> ItemTime(items, i) ] = <<0, 15, 30>>

\* a frame with the column whose second cell is not finite, so that both
\* sources of a timestamp are used in one plan
C23_Witness ==
    /\ ~IsNone(plan)
    /\ TimesOf(Val(plan).df) = <<Num(10), NaN, Num(25)>>
    /\ Val(plan).default_step = 10
    /\ [ i \in 1..3 |-> ItemTime(Val(plan).items, i) ] = <<10, 10, 25>>


----------------------------------------------------------------------------
(* Replay pacing and the empty exam (SpecReplay) *)

\* the plan a replay task iterates over
PlanOf(task) == iter_samples(task.exam, task.speed, delta_sec)

\* C22: the wait that ended right before a replay task handled item i is
\* item i's own planned delay; the first item is handled without a wait
\* (tasks whose last item was answered with a Detection Result)
C22_PacingMatchesPlan ==
    \A t \in DOMAIN tasks :
        tasks[t].pc # "failed" =>
            \A i \in 1..Len(tasks[t].waits) :
                RatEq(tasks[t].waits[i], PlanOf(tasks[t])[i].sleep_sec)

\* C24: a replay task that finds its exam empty pushes nothing, ends, and
\* leaves the session closed: no connection handle, no state
C24_EmptyReplayCloses ==
    [][ \A t \in DOMAIN tasks :
          ( /\ tasks[t].pc = "created"
            /\ tasks'[t].pc = "done"
            /\ tasks'[t].exam = <<>>
            /\ HasSession(tasks[t].session_id)
            /\ ~IsNone(active_connections[tasks[t].session_id]) )
          => /\ PushedBy(tasks[t].session_id, t)' = <<>>
             /\ Closed(tasks[t].session_id)' ]_vars


----------------------------------------------------------------------------
(* The annotation store: save_annotation and recompute_consensus over the
   SQLite tables annotations and consensus.

   Strings are sequences of one-character strings. Times are whole seconds;
   t_gt is an exact fraction. A request handler runs in a worker thread with
   a connection of its own: txns[w] is the request worker w is serving,
   None when it serves none.

     pc  "stamped"     created_at has been read from the clock, the INSERT
                       has not been executed yet
         "inserted"    the INSERT has run: the connection is in a
                       transaction and holds the write lock of the file
         "recomputed"  recompute_consensus has run on the connection *)

Chars_a == <<"a">>
Chars_b == <<"b">>
Chars_adjudicator == <<"a", "d", "j", "u", "d", "i", "c", "a", "t", "o", "r">>

\* str.lower, on the letters that occur in the inputs
LowerChar(c) ==
    CASE c = "A" -> "a"
      [] c = "B" -> "b"
      [] OTHER -> c
lower(str) == [ i \in 1..Len(str) |-> LowerChar(str[i]) ]

\* str.strip: leading and trailing whitespace goes, inner whitespace stays
IsSpace(c) == c \in {" ", "\t"}
RECURSIVE lstrip(_)
lstrip(str) ==
    IF str # <<>> /\ IsSpace(Head(str)) THEN lstrip(Tail(str)) ELSE str
RECURSIVE rstrip(_)
rstrip(str) ==
    IF str # <<>> /\ IsSpace(Last(str)) THEN rstrip(SubSeq(str, 1, Len(str) - 1)) ELSE str
strip(str) == rstrip(lstrip(str))

\* role not in {"a", "b", "adjudicator"} is refused
ValidRole_Any(role) == TRUE
ValidRole(role) == role \in {Chars_a, Chars_b, Chars_adjudicator}

\* a row of annotations (the columns recompute_consensus reads)
AnnotationRow(exam_id, role, at_time, created_at) ==
    [ exam_id |-> exam_id, role |-> role, at_time |-> at_time,
      created_at |-> created_at ]

\* SELECT ... FROM annotations WHERE exam_id=?, in rowid order
SelectAnnotations(rows, exam_id) == SelectSeq(rows, LAMBDA r : r.exam_id = exam_id)

\* _latest_by_role: a dict role -> (at_time, created_at), built row by row
RECURSIVE _latest_by_role(_)
_latest_by_role(rows) ==
    IF rows = <<>> THEN [ role \in {} |-> None ]
    ELSE
        LET latest == _latest_by_role(SubSeq(rows, 1, Len(rows) - 1))
            row == Last(rows)
        IN  IF row.role \notin DOMAIN latest
               \/ row.created_at > latest[row.role].created_at
            THEN [ role \in DOMAIN latest \cup {row.role} |->
                     IF role = row.role
                     THEN [at_time |-> row.at_time, created_at |-> row.created_at]
                     ELSE latest[role] ]
            ELSE latest

\* latest.get(role, (None, None))[0]
LatestTime(latest, role) ==
    IF role \in DOMAIN latest THEN Some(latest[role].at_time) ELSE None

Abs(x) == IF x < 0 THEN 0 - x ELSE x

\* status and t_gt from the three role times
Resolve_PrimaryFirst(t_a, t_b, t_c, delta) ==
    IF ~IsNone(t_a) /\ ~IsNone(t_b) THEN
        IF Abs(Val(t_a) - Val(t_b)) <= delta
        THEN [status |-> "concordant", t_gt |-> Some(Rat(Val(t_a) + Val(t_b), 2))]
        ELSE [status |-> "discordant", t_gt |-> None]
    ELSE IF ~IsNone(t_c) THEN
        [status |-> "finalized", t_gt |-> Some(Rat(Val(t_c), 1))]
    ELSE IF ~IsNone(t_a) \/ ~IsNone(t_b) THEN
        [status |-> "partial", t_gt |-> None]
    ELSE
        [status |-> "pending", t_gt |-> None]
Resolve_DiscordantFirst(t_a, t_b, t_c, delta) ==
    IF ~IsNone(t_a) /\ ~IsNone(t_b) /\ Abs(Val(t_a) - Val(t_b)) > delta THEN
        [status |-> "discordant", t_gt |-> None]
    ELSE IF ~IsNone(t_c) THEN
        [status |-> "finalized", t_gt |-> Some(Rat(Val(t_c), 1))]
    ELSE IF ~IsNone(t_a) /\ ~IsNone(t_b) THEN
        [status |-> "concordant", t_gt |-> Some(Rat(Val(t_a) + Val(t_b), 2))]
    ELSE IF ~IsNone(t_a) \/ ~IsNone(t_b) THEN
        [status |-> "partial", t_gt |-> None]
    ELSE
        [status |-> "pending", t_gt |-> None]
Resolve_StrictDelta(t_a, t_b, t_c, delta) ==
    IF ~IsNone(t_c) THEN
        [status |-> "finalized", t_gt |-> Some(Rat(Val(t_c), 1))]
    ELSE IF ~IsNone(t_a) /\ ~IsNone(t_b) THEN
        IF Abs(Val(t_a) - Val(t_b)) < delta
        THEN [status |-> "concordant", t_gt |-> Some(Rat(Val(t_a) + Val(t_b), 2))]
        ELSE [status |-> "discordant", t_gt |-> None]
    ELSE IF ~IsNone(t_a) \/ ~IsNone(t_b) THEN
        [status |-> "partial", t_gt |-> None]
    ELSE
        [status |-> "pending", t_gt |-> None]
Resolve(t_a, t_b, t_c, delta) ==
    IF ~IsNone(t_c) THEN
        [status |-> "finalized", t_gt |-> Some(Rat(Val(t_c), 1))]
    ELSE IF ~IsNone(t_a) /\ ~IsNone(t_b) THEN
        IF Abs(Val(t_a) - Val(t_b)) <= delta
        THEN [status |-> "concordant", t_gt |-> Some(Rat(Val(t_a) + Val(t_b), 2))]
        ELSE [status |-> "discordant", t_gt |-> None]
    ELSE IF ~IsNone(t_a) \/ ~IsNone(t_b) THEN
        [status |-> "partial", t_gt |-> None]
    ELSE
        [status |-> "pending", t_gt |-> None]

\* the dict recompute_consensus returns, from the rows its SELECT fetched
ConsensusState(rows, delta) ==
    LET latest == _latest_by_role(rows)
        t_a == LatestTime(latest, Chars_a)
        t_b == LatestTime(latest, Chars_b)
        t_c == LatestTime(latest, Chars_adjudicator)
        resolved == Resolve(t_a, t_b, t_c, delta)
    IN  [ status |-> resolved.status, t_gt |-> resolved.t_gt,
          t_a |-> t_a, t_b |-> t_b, t_c |-> t_c, delta_sec |-> delta ]

\* the row of consensus the upsert writes; updated_at is utcnow()
ConsensusRow(state, updated_at) ==
    [ delta |-> state.delta_sec, status |-> state.status,
      t_a |-> state.t_a, t_b |-> state.t_b, t_c |-> state.t_c,
      t_gt |-> state.t_gt, updated_at |-> updated_at ]

\* an HTTP answer: the detail of an HTTPException, or the exam id and the
\* state of an AnnotationResponse
Reply(status_code, detail, exam_id, state) ==
    [ status_code |-> status_code, detail |-> detail, exam_id |-> exam_id,
      state |-> state ]

\* a connection is inside a write transaction: from its INSERT to the commit
\* of db_conn the file's write lock is its own
WriteLocked_Never == FALSE
WriteLocked ==
    \E w \in DOMAIN txns :
        ~IsNone(txns[w]) /\ Val(txns[w]).pc \in {"inserted", "recomputed"}

NewTxn(exam_id, role, at_time, created_at) ==
    [ exam_id |-> exam_id, role |-> role, at_time |-> at_time,
      created_at |-> created_at, pc |-> "stamped", record |-> None,
      state |-> None ]

SetTxn(w, txn) ==
    IF w \in DOMAIN txns THEN [txns EXCEPT ![w] = txn] ELSE Append(txns, txn)

\* save_annotation up to the arguments of the INSERT: the role is
\* normalised and checked, created_at is read from the clock
SaveAnnotation(w, exam_id, raw_role, at_time_sec) ==
    LET role == strip(lower(raw_role))
    IN  /\ \/ w = Len(txns) + 1
           \/ w \in DOMAIN txns /\ IsNone(txns[w])
        /\ IF ~ValidRole(role) THEN
               /\ reply' = Reply(400, "role must be a, b, or adjudicator", "", None)
               /\ UNCHANGED <<annotations, consensus, clock, txns>>
           ELSE
               /\ txns' = SetTxn(w, Some(NewTxn(exam_id, role, at_time_sec, clock)))
               /\ UNCHANGED <<annotations, consensus, clock, reply>>
        /\ UNCHANGED <<manager_vars, plan, detector, endpoints>>

Busy(w, pc) == w \in DOMAIN txns /\ ~IsNone(txns[w]) /\ Val(txns[w]).pc = pc

\* conn.execute(INSERT INTO annotations ...): the transaction begins
ExecuteInsert(w) ==
    /\ Busy(w, "stamped")
    /\ ~WriteLocked
    /\ txns' = [txns EXCEPT ![w] = Some([Val(@) EXCEPT !.pc = "inserted"])]
    /\ UNCHANGED <<annotations, consensus, clock, reply, manager_vars, plan, detector, endpoints>>

\* the INSERT waits for the lock longer than the timeout of the connection:
\* sqlite3.OperationalError, the request ends with a server error
ExecuteInsertLocked(w) ==
    /\ Busy(w, "stamped")
    /\ WriteLocked
    /\ txns' = [txns EXCEPT ![w] = None]
    /\ reply' = Reply(500, "database is locked", "", None)
    /\ UNCHANGED <<annotations, consensus, clock, manager_vars, plan, detector, endpoints>>

\* recompute_consensus(conn, exam_id, settings.delta_sec) inside the
\* transaction: the connection sees the committed rows and its own
RecomputeInTxn(w) ==
    /\ Busy(w, "inserted")
    /\ LET txn == Val(txns[w])
           own == AnnotationRow(txn.exam_id, txn.role, txn.at_time, txn.created_at)
           rows == SelectAnnotations(Append(annotations, own), txn.exam_id)
           state == ConsensusState(rows, delta_sec)
       IN  txns' = [txns EXCEPT ![w] =
                       Some([txn EXCEPT !.pc = "recomputed",
                                        !.record = Some(ConsensusRow(state, clock)),
                                        !.state = Some(state)])]
    /\ UNCHANGED <<annotations, consensus, clock, reply, manager_vars, plan, detector, endpoints>>

\* db_conn leaves the with block: conn.commit(), and the answer goes out
Commit(w) ==
    /\ Busy(w, "recomputed")
    /\ LET txn == Val(txns[w])
       IN  /\ annotations' = Append(annotations,
                   AnnotationRow(txn.exam_id, txn.role, txn.at_time, txn.created_at))
           /\ consensus' = [consensus EXCEPT ![txn.exam_id] = txn.record]
           /\ reply' = Reply(200, "", txn.exam_id, txn.state)
    /\ txns' = [txns EXCEPT ![w] = None]
    /\ UNCHANGED <<clock, manager_vars, plan, detector, endpoints>>

\* recompute_consensus called on a connection of its own and committed
RecomputeConsensus(exam_id, delta) ==
    /\ ~WriteLocked
    /\ LET state == ConsensusState(SelectAnnotations(annotations, exam_id), delta)
       IN  /\ consensus' = [consensus EXCEPT ![exam_id] = Some(ConsensusRow(state, clock))]
           /\ reply' = Reply(200, "", exam_id, Some(state))
    /\ UNCHANGED <<annotations, clock, txns, manager_vars, plan, detector, endpoints>>

\* a second of wall-clock time passes
Tick(max_clock) ==
    /\ clock < max_clock
    /\ clock' = clock + 1
    /\ UNCHANGED <<annotations, consensus, txns, reply, manager_vars, plan, detector, endpoints>>


----------------------------------------------------------------------------
(* The inputs of the annotation store and its specifications *)

\* annotations submitted in a run (stored or in service)
MaxAnnotations == 3

\* seconds that pass in a run
MaxClock == 1

\* requests in service at a time when readers submit at once
MaxWorkersConc == 2

\* annotations submitted in a run of readers who submit at once
MaxAnnotationsConc == 2

\* the spellings under which a reader sends a role
RawRoles(role) ==
    CASE role = Chars_a -> { <<"a">>, <<" ", "A">> }
      [] role = Chars_b -> { <<"b">>, <<"B", " ">> }
      [] role = Chars_adjudicator ->
             { Chars_adjudicator, <<"A">> \o Tail(Chars_adjudicator) \o <<"\t">> }

\* role strings that are none of the three after lower() and strip()
InvalidRoles ==
    { << >>, <<" ">>, <<"c">>, <<"a", "b">>, <<"a", " ", "a">>,
      <<"r", "e", "a", "d", "e", "r">> }

\* (exam, role, crossing time) of the annotations of a study in which the
\* primary readers are 6, 15 or 24 seconds apart
Readings ==
    { <<"e1", Chars_a, 300>>, <<"e1", Chars_a, 330>>,
      <<"e1", Chars_b, 306>>, <<"e1", Chars_b, 315>>,
      <<"e1", Chars_adjudicator, 310>>, <<"e1", Chars_adjudicator, 300>> }

\* the same over two exams, fewer readings
ReadingsConc ==
    { <<"e1", Chars_a, 300>>, <<"e1", Chars_b, 306>>, <<"e1", Chars_b, 330>>,
      <<"e1", Chars_adjudicator, 310>>, <<"e2", Chars_a, 300>> }

\* the tolerances recompute_consensus is called with
Deltas_sec == { delta_sec, 10 }

InService == { w \in DOMAIN txns : ~IsNone(txns[w]) }

\* the least free worker
FreeWorker(w) ==
    /\ w \in 1..(Len(txns) + 1)
    /\ w \in DOMAIN txns => IsNone(txns[w])
    /\ \A v \in 1..(w - 1) : ~IsNone(txns[v])

SubmitAny(readings, max_annotations, max_workers) ==
    \E w \in 1..max_workers :
        /\ FreeWorker(w)
        /\ Len(annotations) + Cardinality(InService) < max_annotations
        /\ \E r \in readings : \E raw \in RawRoles(r[2]) :
               SaveAnnotation(w, r[1], raw, r[3])

\* the exam and the time of a submission with such a role are those of a
\* reading of the first reader
RejectAny(readings, max_workers) ==
    \E w \in 1..max_workers :
        /\ FreeWorker(w)
        /\ \E r \in { x \in readings : x[2] = Chars_a }, raw \in InvalidRoles :
               SaveAnnotation(w, r[1], raw, r[3])

\* readers who submit one after another: one request in service at a time
DoSaveAnnotation == SubmitAny(Readings, MaxAnnotations, 1)
DoSaveAnnotationInvalid == RejectAny(Readings, 1)
DoExecuteInsert == \E w \in DOMAIN txns : ExecuteInsert(w)
DoExecuteInsertLocked == \E w \in DOMAIN txns : ExecuteInsertLocked(w)
DoRecomputeInTxn == \E w \in DOMAIN txns : RecomputeInTxn(w)
DoCommit == \E w \in DOMAIN txns : Commit(w)
DoRecomputeConsensus == \E delta \in Deltas_sec : RecomputeConsensus("e1", delta)
DoTick == Tick(MaxClock)

NextConsensus ==
    \/ DoSaveAnnotation
    \/ DoSaveAnnotationInvalid
    \/ DoExecuteInsert
    \/ DoRecomputeInTxn
    \/ DoCommit
    \/ DoRecomputeConsensus
    \/ DoTick

SpecConsensus == Init /\ [][NextConsensus]_vars

DoSaveAnnotationConc == SubmitAny(ReadingsConc, MaxAnnotationsConc, MaxWorkersConc)

NextConcurrent ==
    \/ DoSaveAnnotationConc
    \/ DoExecuteInsert
    \/ DoExecuteInsertLocked
    \/ DoRecomputeInTxn
    \/ DoCommit
    \/ DoTick

SpecConcurrent == Init /\ [][NextConcurrent]_vars

\* readers of two exams who submit one after another, some of them with a
\* role that is none of the three
DoSaveAnnotationTwoExams == SubmitAny(ReadingsConc, MaxAnnotationsConc, 1)
DoSaveAnnotationRefused == RejectAny(ReadingsConc, 1)

NextValidation ==
    \/ DoSaveAnnotationTwoExams
    \/ DoSaveAnnotationRefused
    \/ DoExecuteInsert
    \/ DoRecomputeInTxn
    \/ DoCommit

SpecValidation == Init /\ [][NextValidation]_vars


----------------------------------------------------------------------------
(* Properties of the consensus resolver (SpecConsensus, SpecValidation) *)

\* the committed annotations of an exam by one role, in the order recorded
RoleRows(exam_id, role) ==
    SelectSeq(SelectAnnotations(annotations, exam_id), LAMBDA r : r.role = role)

\* the last answer is what recompute returned for the exam
Returned(exam_id) ==
    reply.status_code = 200 /\ reply.exam_id = exam_id

\* C25: an exam with an adjudicator annotation has status finalized and, as
\* ground truth, the time of an adjudicator annotation of the latest
\* creation time, whatever the primary readers' times are; so does the
\* state recompute returned. An adjudicator at 310 alone gives 310.
C25_AdjudicatorOverride ==
    \A e \in ExamIds :
        (~IsNone(consensus[e]) /\ RoleRows(e, Chars_adjudicator) # <<>>) =>
            LET record == Val(consensus[e])
                rows == RoleRows(e, Chars_adjudicator)
            IN  /\ record.status = "finalized"
                /\ ~IsNone(record.t_c)
                /\ record.t_gt = Some(Rat(Val(record.t_c), 1))
                /\ \E i \in DOMAIN rows :
                      /\ rows[i].at_time = Val(record.t_c)
                      /\ \A j \in DOMAIN rows : rows[j].created_at <= rows[i].created_at
                /\ (\A i \in DOMAIN rows : rows[i].at_time = 310) =>
                      record.t_gt = Some(Rat(310, 1))
                /\ Returned(e) =>
                      /\ Val(reply.state).status = "finalized"
                      /\ Val(reply.state).t_gt = record.t_gt

\* finalized over primary readers who are further apart than delta, and
\* over primary readers who agree
C25_Witness ==
    /\ ~IsNone(consensus["e1"])
    /\ Val(consensus["e1"]).status = "finalized"
    /\ Val(consensus["e1"]).t_a = Some(330)
    /\ Val(consensus["e1"]).t_b = Some(306)
    /\ Val(consensus["e1"]).t_gt = Some(Rat(310, 1))
    /\ Returned("e1")

\* C26: for an exam without adjudicator annotation: both primary times
\* there and |t_a - t_b| <= delta gives concordant with ground truth
\* (t_a + t_b) / 2; both there and further apart gives discordant, one
\* gives partial, none gives pending, each with no ground truth.
\* 300 and 306 at delta 10 give concordant, 303.
C26_PrimaryConsensus ==
    \A e \in ExamIds :
        (~IsNone(consensus[e]) /\ RoleRows(e, Chars_adjudicator) = <<>>) =>
            LET record == Val(consensus[e])
                t_a == record.t_a
                t_b == record.t_b
                both == ~IsNone(t_a) /\ ~IsNone(t_b)
                expected ==
                    IF both /\ Abs(Val(t_a) - Val(t_b)) <= record.delta THEN "concordant"
                    ELSE IF both THEN "discordant"
                    ELSE IF ~IsNone(t_a) \/ ~IsNone(t_b) THEN "partial"
                    ELSE "pending"
            IN  /\ IsNone(t_a) <=> RoleRows(e, Chars_a) = <<>>
                /\ IsNone(t_b) <=> RoleRows(e, Chars_b) = <<>>
                /\ record.status = expected
                /\ IF expected = "concordant"
                   THEN /\ ~IsNone(record.t_gt)
                        /\ RatEq(Val(record.t_gt), Rat(Val(t_a) + Val(t_b), 2))
                   ELSE IsNone(record.t_gt)
                /\ (t_a = Some(300) /\ t_b = Some(306) /\ record.delta = 10) =>
                      /\ record.status = "concordant"
                      /\ RatEq(Val(record.t_gt), Rat(303, 1))
                /\ Returned(e) =>
                      /\ Val(reply.state).status = record.status
                      /\ Val(reply.state).t_gt = record.t_gt

\* primary readers exactly delta apart
C26_Witness ==
    /\ ~IsNone(consensus["e1"])
    /\ Val(consensus["e1"]).status = "concordant"
    /\ Val(consensus["e1"]).t_a = Some(300)
    /\ Val(consensus["e1"]).t_b = Some(315)
    /\ Val(consensus["e1"]).delta = delta_sec
    /\ RatEq(Val(Val(consensus["e1"]).t_gt), Rat(615, 2))

\* the role time of a Consensus Record
RoleTime(record, role) ==
    CASE role = Chars_a -> record.t_a
      [] role = Chars_b -> record.t_b
      [] role = Chars_adjudicator -> record.t_c

\* C27: the time recompute uses for a role is the crossing time of the
\* annotation recorded last for that role, also when annotations of the
\* role have equal creation timestamps
C27_MostRecentWins ==
    \A e \in ExamIds :
        ~IsNone(consensus[e]) =>
            \A role \in {Chars_a, Chars_b, Chars_adjudicator} :
                RoleRows(e, role) # <<>> =>
                    RoleTime(Val(consensus[e]), role)
                        = Some(Last(RoleRows(e, role)).at_time)

\* C28: a second recompute of an exam with the same delta and no annotation
\* added since the first leaves the Consensus Record as it was, in every
\* field, and returns the status and the ground truth of the record
C28_RecomputeIdempotent ==
    [][ \A e \in ExamIds : \A delta \in Deltas_sec :
          ( /\ RecomputeConsensus(e, delta)
            /\ ~IsNone(consensus[e])
            /\ Val(consensus[e]).delta = delta )
          => /\ consensus'[e] = consensus[e]
             /\ Val(reply'.state).status = Val(consensus[e]).status
             /\ Val(reply'.state).t_gt = Val(consensus[e]).t_gt ]_vars

\* the role strings sent that are none of the three after lower() and
\* strip()
Refused ==
    { raw \in InvalidRoles \cup UNION { RawRoles(x[2]) : x \in Readings } :
        strip(lower(raw)) \notin {Chars_a, Chars_b, Chars_adjudicator} }

\* C30: a submission whose role, lower-cased and stripped, is none of a, b,
\* adjudicator is answered with the validation error 400; no annotation is
\* added or begun and no Consensus Record is created or changed
C30_InvalidRoleRejected ==
    [][ \A w \in 1..(Len(txns) + 1) : \A r \in ReadingsConc : \A raw \in Refused :
              ( /\ UNCHANGED clock
                /\ SaveAnnotation(w, r[1], raw, r[3]) )
              => /\ reply'.status_code = 400
                 /\ UNCHANGED <<annotations, consensus, txns>> ]_vars

\* a submission was refused while the exam had annotations and a record,
\* among them one sent as " A" or "a"
C30_Witness ==
    /\ reply.status_code = 400
    /\ RoleRows("e1", Chars_a) # <<>>
    /\ ~IsNone(consensus["e1"])
    /\ IsNone(consensus["e2"])
    /\ InService = {}

----------------------------------------------------------------------------
(* Submissions at once (SpecConcurrent) *)

\* the Consensus Record of the exam is recompute over its committed
\* annotations in every field but the time of the update, and an exam has a
\* record iff it has annotations
RecordIsCurrent(stored, records, exam_id) ==
    LET rows == SelectAnnotations(stored, exam_id)
    IN  IF rows = <<>> THEN IsNone(records[exam_id])
        ELSE /\ ~IsNone(records[exam_id])
             /\ Val(records[exam_id])
                    = ConsensusRow(ConsensusState(rows, delta_sec),
                                   Val(records[exam_id]).updated_at)

\* C29: whatever the interleaving of the steps of save_annotation calls
\* (insert, recompute, commit), once all calls have ended each exam has one
\* Consensus Record, equal in status, role times and ground truth to
\* recompute over all committed annotations of the exam; a call changes the
\* record of its own exam only, and no committed annotation goes away
C29_ConcurrentSubmissions ==
    [][ /\ InService' = {} =>
              \A e \in ExamIds : RecordIsCurrent(annotations', consensus', e)
        /\ \A w \in DOMAIN txns :
              Commit(w) =>
                  /\ \A e \in ExamIds \ {Val(txns[w]).exam_id} :
                        consensus'[e] = consensus[e]
                  /\ Len(annotations') = Len(annotations) + 1
        /\ SubSeq(annotations', 1, Len(annotations)) = annotations ]_vars

\* two submissions for one exam were in service at once: the one stamped
\* first was committed last; both have ended
C29_Witness ==
    /\ InService = {}
    /\ Len(annotations) = 2
    /\ annotations[1].exam_id = annotations[2].exam_id
    /\ annotations[1].created_at > annotations[2].created_at
    /\ annotations[1].role # annotations[2].role

----------------------------------------------------------------------------
(* An ATOnlineSession used on its own: add_data_point, update_probability and
   reset called in any order on one detector.  The window is small, so that a
   handful of calls fills it twice over. *)

\* the largest number of calls made on the detector
MaxCallsDetector == 6

\* window_size of the detector
WindowSizes == {1, 2}

\* persistence of the detector
PersistencesDetector == {1, 2}

\* probabilities passed to update_probability, in tenths
Probs == {0, 9, 10}

\* power_load passed to update_probability
PowerLoads == {Some(0), Some(50)}

\* the n-th CPETDataPoint handed to the detector: the points differ in their
\* timestamps
DetectorPoint(n) ==
    [ timestamp |-> Some(delta_sec * n), vo2 |-> Some(10), ve |-> Some(20),
      rer |-> Some(95), work_rate |-> Some(50) ]

\* detector.add_data_point(point)
AddDataPoint(point) ==
    /\ detector' = [ detector EXCEPT
                       !.session = add_data_point(@, point),
                       !.ingested = Append(@, point),
                       !.result = None,
                       !.reset_from = None,
                       !.calls = @ + 1 ]
    /\ UNCHANGED <<manager_vars, store_vars, plan, endpoints>>

\* detector.update_probability(prob, predicted_at_time, power_load)
UpdateProbability(prob, predicted_at_time, power_load) ==
    LET up == update_probability(detector.session, prob, predicted_at_time, power_load)
    IN  /\ detector' = [ detector EXCEPT
                           !.session = up.session,
                           !.result = IF up.raised THEN None ELSE Some(up.result),
                           !.reset_from = None,
                           !.calls = @ + 1 ]
        /\ UNCHANGED <<manager_vars, store_vars, plan, endpoints>>

\* detector.reset()
Reset ==
    /\ detector' = [ detector EXCEPT
                       !.session = reset(@),
                       !.ingested = <<>>,
                       !.result = None,
                       !.reset_from = Some(detector.session),
                       !.calls = @ + 1 ]
    /\ UNCHANGED <<manager_vars, store_vars, plan, endpoints>>

DoAddDataPoint ==
    /\ detector.calls < MaxCallsDetector
    /\ AddDataPoint(DetectorPoint(detector.calls))

DoUpdateProbability ==
    /\ detector.calls < MaxCallsDetector
    /\ \E prob \in Probs, power_load \in PowerLoads :
           UpdateProbability(prob, None, power_load)

DoReset ==
    /\ detector.calls < MaxCallsDetector
    /\ Reset

InitDetector ==
    /\ at_predictor = NewATPredictor(FALSE, 8)
    /\ sessions = [sid \in SessionIds |-> None]
    /\ response = Response("none", "")
    /\ results = [sid \in SessionIds |-> <<>>]
    /\ active_connections = [sid \in SessionIds |-> None]
    /\ pending_configs = [sid \in SessionIds |-> None]
    /\ sim_tasks = [sid \in SessionIds |-> None]
    /\ tasks = <<>>
    /\ pushed = [sid \in SessionIds |-> <<>>]
    /\ InitStore
    /\ plan = None
    /\ endpoints = NoEndpoints(SessionIds)
    /\ \E threshold \in Thresholds, persistence \in PersistencesDetector,
          window_size \in WindowSizes :
           detector = NewDetector(threshold, persistence, window_size)

NextDetector ==
    \/ DoAddDataPoint
    \/ DoUpdateProbability
    \/ DoReset

SpecDetector == InitDetector /\ [][NextDetector]_vars

----------------------------------------------------------------------------
(* Properties of the detector's buffers and of reset *)

\* C31: the probability history of a detector never holds more entries than
\* twice its window.
C31_ProbHistoryBounded ==
    Len(detector.session.prob_history) <= 2 * detector.session.window_size

\* C32: the sample buffer and the timestamp list have the same length, at
\* most twice the window, and hold exactly the most recently ingested samples
\* and their timestamps, in arrival order.
C32_BuffersHoldLatest ==
    LET s == detector.session
        n == 2 * s.window_size
    IN  /\ Len(s.data_buffer) = Len(s.timestamps)
        /\ Len(s.data_buffer) <= n
        /\ s.data_buffer = LastN(detector.ingested, n)
        /\ \A i \in 1..Len(s.timestamps) :
               s.timestamps[i] = s.data_buffer[i].timestamp

\* a window of two was filled twice over and a sixth point evicted the second
C32_Witness ==
    /\ detector.session.window_size = 2
    /\ Len(detector.ingested) = 6
    /\ detector.session.timestamps = <<Some(30), Some(45), Some(60), Some(75)>>

\* C34: reset leaves the detector as ATOnlineSession(threshold, persistence,
\* window_size) builds it, whatever it held: both buffers and the probability
\* history empty, not triggered, no trigger time, no anchor, the counter zero,
\* the exercise not started.  What update_probability and add_data_point do
\* depends on these fields alone, so the calls that follow behave as on a new
\* detector.
C34_ResetIsNew ==
    [][ Reset =>
          detector'.session =
              NewATOnlineSession(detector.session.threshold,
                                 detector.session.persistence,
                                 detector.session.window_size) ]_vars

\* reset was called on a detector that had triggered during exercise
C34_Witness ==
    /\ ~IsNone(detector.reset_from)
    /\ Val(detector.reset_from).at_triggered
    /\ Val(detector.reset_from).has_exercise_started
    /\ ~IsNone(Val(detector.reset_from).vt1_trigger_time)
    /\ Len(Val(detector.reset_from).data_buffer) > 0
    /\ Len(Val(detector.reset_from).prob_history) > 0
    /\ detector.session.data_buffer = <<>>
    /\ ~detector.session.at_triggered

----------------------------------------------------------------------------
(* The confidence of a Detection Result *)

\* the largest number of samples of a session
MaxCallsConfidence == 7

\* a first sample at rest or under load, the following ones under load
ConfidenceSamples(sid) ==
    { Dict(t, Some(w), Some(95), 20, 10) :
        t \in NextTimestamps(sid, {delta_sec}),
        w \in IF IsNone(LastTimestamp(sid)) THEN {0, 50} ELSE {50} }

\* probs[-1] of the network's outputs: steady, or jumping between low and high
ConfidenceOuts ==
    { [raises |-> FALSE, prob |-> Some(p), time_pred_index |-> None] : p \in {2, 8, 9} }

DoProcessDataConfidence ==
    \E sid \in SessionIds :
        /\ CanCall(sid, MaxCallsConfidence)
        /\ \E data \in ConfidenceSamples(sid), out \in ConfidenceOuts :
               ProcessData(sid, data, out)
        /\ UNCHANGED <<tasks, pushed>>

NextConfidence == DoConnect \/ DoProcessDataConfidence

\* a manager whose network is loaded, as in SpecModel
SpecConfidence == InitModel /\ [][NextConfidence]_vars

\* what _calculate_confidence returns for the detector of a session as it is
DetectorConfidence(sid) == _calculate_confidence(Val(sessions[sid]).at_session)

\* C35: the confidence that update returns (the value of _calculate_confidence
\* on the detector that update leaves) lies in [0.5, 1.0] and is exactly 0.5
\* while fewer than five probabilities are recorded; every result the manager
\* pushed carries a confidence in [0, 1], the one of a scored sample being the
\* detector's confidence rounded to two places.
C35_ConfidenceRange ==
    \A sid \in SessionIds :
        /\ HasSession(sid) =>
               /\ DetectorConfidence(sid) >= 0
               /\ DetectorConfidence(sid) <= 625
               /\ Len(Val(sessions[sid]).at_session.prob_history) < 5
                      => DetectorConfidence(sid) = 625
        /\ \A i \in 1..Len(results[sid]) :
               /\ results[sid][i].confidence >= 0
               /\ results[sid][i].confidence <= 100
               /\ results[sid][i].scored => results[sid][i].confidence >= 50
               /\ ~results[sid][i].scored => results[sid][i].confidence = 0
               /\ (i = Len(results[sid]) /\ results[sid][i].scored /\ HasSession(sid))
                      => results[sid][i].confidence = round2(DetectorConfidence(sid))

\* a warmup result with confidence 0, and scored results with confidence 0.5
\* and with a confidence strictly between 0.5 and 1
C35_Witness ==
    \E sid \in SessionIds :
        /\ HasSession(sid)
        /\ Len(Val(sessions[sid]).at_session.prob_history) >= 5
        /\ \E i, j, k \in 1..Len(results[sid]) :
               /\ ~results[sid][i].scored /\ results[sid][i].confidence = 0
               /\ results[sid][j].scored /\ results[sid][j].confidence = 50
               /\ k = Len(results[sid])
               /\ results[sid][k].scored
               /\ results[sid][k].confidence > 50
               /\ results[sid][k].confidence < 100

----------------------------------------------------------------------------
(* websocket_endpoint coroutines: connect is suspended while the "connected"
   message is sent, and other coroutines run in between.  An id may be opened
   again while an earlier endpoint of the same id is still in its receive
   loop. *)

\* replay tasks created in a run
MaxTasksEndpoints == 2

\* SessionCreateRequest as registered by POST /api/sessions
ConfigsEndpoints == { SessionConfig(Some("p1"), 5, 1, "sim", 0) }

\* the exam of the data set
ExamsEndpoints ==
    { << Row(Num(0), Num(0), Num(80)), Row(Num(15), Num(50), Num(100)) >> }

\* RealtimeManager.connect from its start to the await of the send of the
\* "connected" message: config is the local variable of the coroutine
ConnectBegin(sid, threshold, persistence) ==
    LET config == pending_configs[sid]
        registered == ~IsNone(config)
    IN  /\ IsNone(endpoints[sid].connecting)
        /\ active_connections' = [active_connections EXCEPT ![sid] = Some(WebSocket)]
        /\ pending_configs' = PopConfig(sid)
        /\ sessions' = [sessions EXCEPT ![sid] = Some(
                IF registered
                THEN NewSessionState(Val(config).threshold, Val(config).persistence,
                                     Val(config).patient_id, Val(config).mode)
                ELSE NewSessionState(threshold, persistence, None, "device"))]
        /\ results' = [results EXCEPT ![sid] = <<>>]
        /\ pushed' = [pushed EXCEPT ![sid] = <<Message(0, Response("connected", ""))>>]
        /\ endpoints' = [endpoints EXCEPT ![sid].connecting = Some(config)]
        /\ UNCHANGED <<at_predictor, response, sim_tasks, tasks, store_vars, plan,
                       detector>>

\* RealtimeManager.connect from the end of the send to its return; the endpoint
\* enters its receive loop
ConnectEnd(sid) ==
    /\ ~IsNone(endpoints[sid].connecting)
    /\ LET config == Val(endpoints[sid].connecting)
       IN  IF ~IsNone(config) /\ Val(config).mode = "sim"
           THEN _start_simulation(sid, Val(config))
           ELSE UNCHANGED <<sim_tasks, tasks>>
    /\ endpoints' = [endpoints EXCEPT ![sid] =
                        [connecting |-> None, listening |-> @.listening + 1]]
    /\ response' = Response("connected", "")
    /\ UNCHANGED <<at_predictor, sessions, results, active_connections,
                   pending_configs, pushed, store_vars, plan, detector>>

\* the send of the "connected" message fails, the client being gone: the
\* exception leaves connect and websocket_endpoint, whose try begins after
\* connect
ConnectFails(sid) ==
    /\ ~IsNone(endpoints[sid].connecting)
    /\ endpoints' = [endpoints EXCEPT ![sid].connecting = None]
    /\ response' = Response("raised", "WebSocketDisconnect")
    /\ UNCHANGED <<at_predictor, sessions, results, active_connections,
                   pending_configs, sim_tasks, tasks, pushed, store_vars, plan,
                   detector>>

\* receive_json of an endpoint in its loop raises WebSocketDisconnect: the
\* endpoint calls disconnect(sid) and ends
EndpointCloses(sid) ==
    /\ endpoints[sid].listening > 0
    /\ disconnect(sid)
    /\ endpoints' = [endpoints EXCEPT ![sid].listening = @ - 1]
    /\ response' = Response("none", "")
    /\ UNCHANGED <<at_predictor, pending_configs, results, pushed, store_vars,
                   plan, detector>>

\* the endpoints of an id that are inside connect or in their loop
Alive(sid) ==
    endpoints[sid].listening + (IF IsNone(endpoints[sid].connecting) THEN 0 ELSE 1)

DoRegisterSessionEndpoints == RegisterAny(ConfigsEndpoints, MaxTasksEndpoints)

\* an id is opened, by a first client or by one that arrives while the
\* endpoint of another is still alive: two endpoints of an id at a time
DoConnectBegin ==
    \E sid \in Ids :
        /\ Alive(sid) < 2
        /\ ConnectBegin(sid, DefaultThreshold, DefaultPersistence)

DoConnectEnd == \E sid \in Ids : ConnectEnd(sid)

DoConnectFails == \E sid \in Ids : ConnectFails(sid)

DoEndpointCloses == \E sid \in Ids : EndpointCloses(sid)

DoRunSimulationEndpoints == ReplayAny(ExamsEndpoints)

NextEndpoints ==
    \/ DoRegisterSessionEndpoints
    \/ DoConnectBegin
    \/ DoConnectEnd
    \/ DoConnectFails
    \/ DoEndpointCloses
    \/ DoRunSimulationEndpoints

SpecEndpoints == Init /\ [][NextEndpoints]_vars

----------------------------------------------------------------------------
(* Properties of the replay tasks and the registries under interleaving *)

\* the replay tasks of an id that have not ended
Unfinished(sid) ==
    { t \in DOMAIN tasks :
        tasks[t].session_id = sid /\ tasks[t].pc \in {"created", "delay", "yield"} }

\* C33: a step of a replay task processes a sample or sends a result only
\* while the connection of its id is registered, and a task that finds the
\* connection gone ends by leaving the loop: it is done, neither failed nor
\* cancelled, and has touched nothing.
C33_CooperativeCancellation ==
    [][ \A t \in DOMAIN tasks :
          (\E exam \in ExamsEndpoints : RunSimulation(t, exam, NoModelOut)) =>
              LET sid == tasks[t].session_id
              IN  /\ ( \/ tasks'[t].idx # tasks[t].idx
                       \/ pushed'[sid] # pushed[sid]
                       \/ sessions'[sid] # sessions[sid]
                       \/ results'[sid] # results[sid] )
                         => ~IsNone(active_connections[sid]) /\ HasSession(sid)
                  /\ IsNone(active_connections[sid]) =>
                         /\ tasks'[t].pc = "done"
                         /\ tasks'[t].idx = tasks[t].idx
                         /\ pushed' = pushed /\ sessions' = sessions ]_vars

\* a task that had handled an item and was not cancelled found the connection
\* gone before the next item and ended
C33_Witness ==
    \E t \in DOMAIN tasks :
        /\ tasks[t].pc = "done"
        /\ tasks[t].closed_at = ""
        /\ tasks[t].idx = 1
        /\ Len(tasks[t].exam) = 2
        /\ IsNone(active_connections[tasks[t].session_id])

----------------------------------------------------------------------------
(* The consensus record over time *)

\* C39: once an exam has an adjudicator annotation, every recompute writes
\* and returns finalized with a ground truth, so a finalized record stays
\* finalized; and every record written has a ground truth exactly when its
\* status is finalized or concordant.
C39_FinalizedAbsorbing ==
    [][ \A e \in ExamIds :
          /\ (RoleRows(e, Chars_adjudicator) # <<>> /\ consensus'[e] # consensus[e]) =>
                 /\ Val(consensus'[e]).status = "finalized"
                 /\ ~IsNone(Val(consensus'[e]).t_gt)
          /\ (RoleRows(e, Chars_adjudicator) # <<>> /\ reply' # reply
                /\ reply'.status_code = 200 /\ reply'.exam_id = e) =>
                 /\ Val(reply'.state).status = "finalized"
                 /\ ~IsNone(Val(reply'.state).t_gt)
          /\ (~IsNone(consensus[e]) /\ Val(consensus[e]).status = "finalized") =>
                 /\ ~IsNone(consensus'[e])
                 /\ Val(consensus'[e]).status = "finalized"
          /\ ~IsNone(consensus'[e]) =>
                 (~IsNone(Val(consensus'[e]).t_gt)
                      <=> Val(consensus'[e]).status \in {"finalized", "concordant"})
      ]_vars

\* primary readers further apart than delta were recorded after the
\* adjudicator, and the record is finalized
C39_Witness ==
    /\ ~IsNone(consensus["e1"])
    /\ Val(consensus["e1"]).status = "finalized"
    /\ \E i, j, k \in DOMAIN annotations :
          /\ i < j /\ i < k
          /\ annotations[i].exam_id = "e1" /\ annotations[i].role = Chars_adjudicator
          /\ annotations[j].exam_id = "e1" /\ annotations[j].role = Chars_a
          /\ annotations[k].exam_id = "e1" /\ annotations[k].role = Chars_b
          /\ Val(consensus["e1"]).t_a = Some(annotations[j].at_time)
          /\ Val(consensus["e1"]).t_b = Some(annotations[k].at_time)
          /\ Abs(annotations[j].at_time - annotations[k].at_time) > delta_sec

----------------------------------------------------------------------------
(* Samples whose timestamp is null.  process_data builds the CPETDataPoint
   from data.get("timestamp", 0) without a check, so the null of the JSON
   object reaches the detector's list of timestamps. *)

\* samples a session object takes from its receive loop
MaxCallsNull == 3

\* a raw inbound sample whose timestamp is null
DictNullTime(work_rate, rer, ve, vo2) ==
    [ kind |-> "dict",
      fields |-> [ timestamp |-> None, work_rate |-> work_rate,
                   rer |-> rer, ve |-> Some(ve), vo2 |-> Some(vo2) ] ]

\* (work_rate, rer): rest and load, below and above the threshold
ProfilesNull == { <<0, 100>>, <<50, 80>>, <<50, 100>> }

SamplesNull(sid) ==
    { Dict(t, Some(p[1]), Some(p[2]), 20, 10) :
        t \in NextTimestamps(sid, {delta_sec}), p \in ProfilesNull }
    \cup { DictNullTime(Some(p[1]), Some(p[2]), 20, 10) : p \in ProfilesNull }

\* one registration for a replay is made in a run
DoRegisterSessionNull == RegisterAny(ConfigsEndpoints, 1)

DoConnectNull ==
    \E sid \in Ids : Connect(sid, DefaultThreshold, DefaultPersistence)

DoEndpointReceiveNull ==
    \E sid \in Ids :
        /\ CanCall(sid, MaxCallsNull)
        /\ \E data \in SamplesNull(sid) : EndpointReceive(sid, data, NoModelOut)

DoRunSimulationNull == ReplayAny(ExamsEndpoints)

DoDisconnectNull == \E sid \in Ids : Disconnect(sid)

NextNullTime ==
    \/ DoRegisterSessionNull
    \/ DoConnectNull
    \/ DoEndpointReceiveNull
    \/ DoRunSimulationNull
    \/ DoDisconnectNull

SpecNullTime == Init /\ [][NextNullTime]_vars

\* C38: the SessionState and its detector agree on the triggered flag and on
\* the trigger time, whenever a session is there between two handlers.
C38_ManagerFollowsDetector ==
    \A sid \in Ids :
        HasSession(sid) =>
            /\ Val(sessions[sid]).at_triggered = Detector(sid).at_triggered
            /\ Val(sessions[sid]).trigger_time = Detector(sid).trigger_time

\* a session triggered at 15 and took a later sample since
C38_Witness ==
    \E sid \in Ids :
        /\ HasSession(sid)
        /\ Val(sessions[sid]).at_triggered
        /\ Val(sessions[sid]).trigger_time = Some(15)
        /\ Detector(sid).trigger_time = Some(15)
        /\ Detector(sid).timestamps = <<Some(0), Some(15), Some(30)>>

\* C40: the detector's trigger time is null exactly when it has not
\* triggered, and once it has triggered an ingest or update changes neither
\* the trigger time nor the counter.
C40_TriggerTimeFrozen ==
    [][ \A sid \in Ids :
          HasSession(sid)' =>
              /\ IsNone(Detector(sid)'.trigger_time) <=> ~Detector(sid)'.at_triggered
              /\ ( /\ HasSession(sid)
                   /\ Detector(sid).at_triggered
                   /\ Val(sessions[sid])'.data_count = Val(sessions[sid]).data_count + 1 )
                     => /\ Detector(sid)'.trigger_time = Detector(sid).trigger_time
                        /\ Detector(sid)'.consecutive_above_threshold
                               = Detector(sid).consecutive_above_threshold
      ]_vars

============================================================================
